---- MODULE Spec2Model ----
(***************************************************************************)
(* A model of goretk/gore: the top-level file object (file.go), its lazy   *)
(* derivations, the container readers' Close and PCLNTAB discovery, the    *)
(* moduledata scan, Bytes, and the build-id / buildinfo parsing of Open.   *)
(*                                                                         *)
(* The repository holds several revisions of some files.  The parts and    *)
(* their specifications:                                                   *)
(*   Spec        the file object of file.go, called sequentially           *)
(*   SpecLegacy  the older file object of unnamed/part_010 (method init)   *)
(*   SpecConc    two goroutines calling the file object of file.go         *)
(*   SpecOpen    Open with the build ID and build info parsers             *)
(*   SpecBytes   Bytes                                                     *)
(*   SpecMD      the validation of moduledata records                      *)
(*   SpecTab     PCLNTAB discovery                                         *)
(*   SpecCmp     GoVersionCompare on version strings                       *)
(*   SpecVer     the discovery of the compiler version                     *)
(*   SpecBuildID the build ID parsers on bytes                             *)
(*   SpecScan    the moduledata scan, round by round                       *)
(*   SpecText    findRuntimeText                                           *)
(*   SpecStr     extractStringFromPtr of the build info                    *)
(*   SpecLatch   the do-once latches under concurrent callers              *)
(*   SpecSrc     SourceInfo among the accessors of the file object         *)
(*   SpecPool    the worker pool of the older enumPackages                 *)
(*   SpecLines   findSourceLines                                           *)
(*   SpecSym     the moduledata scan after the symbol lookup               *)
(***************************************************************************)
EXTENDS Integers, Sequences, FiniteSets, TLC

NIL == "nil"

\* The nil (or zero) value of a returned value; values are tuples.
NoVal == <<>>

\* Bound on the number of API calls made on one file object.
MaxCalls == 3

----------------------------------------------------------------------------
(***************************************************************************)
(* Part 1.  The file object of file.go.                                    *)
(*                                                                         *)
(* img is the executable image; it never changes.  Its fields are the      *)
(* outcomes of the scans over the file's bytes, which are pure functions   *)
(* of the bytes (the scans themselves are modelled in the later parts):    *)
(*   bi     the BuildInfo extractBuildInfo returns (or its failure)        *)
(*   pcln   where the PCLNTAB is found: "sym" (runtime.pclntab symbols),   *)
(*          "fh" (the container's getPCLNTABData), "none"                  *)
(*   text   where runtime.text is found: "sym", "scan", "none"             *)
(*   main   the line table has a package main                              *)
(*   sched  the version string schedinit loads (NIL: none)                 *)
(*   scan   the version string the string scan finds (NIL: none)           *)
(*   md     where a valid moduledata record is found: "sym"                *)
(*          (runtime.firstmoduledata), "scan", "none"                      *)
(***************************************************************************)

\* gf is the file object; first and last hold the first and the latest result
\* of each accessor; calls counts the API calls; overridden tells that
\* SetGoVersion has replaced the version; closeRets lists what each Close
\* returned.
VARIABLES img, gf, first, last, calls, overridden, closeRets

\* pc holds, per goroutine, the position of its call in the concurrent runs of
\* Part 3; arg and ret are the input and the outcome of the functions of the
\* later parts.  Each is empty where it is not used.
VARIABLES pc, arg, ret

specVars == <<img, gf, first, last, calls, overridden, closeRets, pc, arg, ret>>

KnownTags == {"go1.16", "go1.21.0"}

\* goversion.go:32  ResolveGoVersion: the descriptor of a known tag, or nil.
ResolveGoVersion(tag) == IF tag \in KnownTags THEN tag ELSE NIL

\* stdpkg_gen.go:436-442  type BuildInfo; present = FALSE stands for the nil
\* pointer Open keeps when extractBuildInfo fails.
NoBuildInfo == [present |-> FALSE, Compiler |-> NIL, ModInfo |-> FALSE]

BuildInfos ==
    { NoBuildInfo,
      [present |-> TRUE, Compiler |-> NIL,        ModInfo |-> FALSE],
      [present |-> TRUE, Compiler |-> NIL,        ModInfo |-> TRUE],
      [present |-> TRUE, Compiler |-> "go1.21.0", ModInfo |-> TRUE] }

Images ==
    [ bi    : BuildInfos,
      pcln  : {"sym", "fh", "none"},
      text  : {"sym", "scan", "none"},
      main  : BOOLEAN,
      sched : {NIL, "go1.16"},
      scan  : {NIL, "go1.16"},
      md    : {"sym", "scan", "none"} ]

\* Errors (file.go, goversion.go, unnamed/part_004).
ErrNoGoVersionFound == "ErrNoGoVersionFound"
ErrInvalidGoVersion == "ErrInvalidGoVersion"
ErrGetPclntab       == "error when getting pclntab"
ErrRuntimeText      == "failed to find runtime.text symbol"
ErrNoMainPackage    == "no main package found"
ErrNoModuledata     == "could not find moduledata"
ErrFileClosed       == "file already closed"

NoRuns == [pcln |-> 0, enum |-> 0, ver |-> 0, md |-> 0, layouts |-> 0]

\* file.go:114-148  type GoFile, as Open leaves it (file.go:68-110), with the
\* os.File of the container reader (elf.go:43-47).  runs counts how often each
\* underlying scan has been executed (instrumentation, not a field).
NewGoFile(i) ==
    [ BuildInfo           |-> i.bi,
      goversion           |-> IF i.bi.present THEN i.bi.Compiler ELSE NIL,
      versionError        |-> NIL,
      initPackagesOnce    |-> FALSE,
      initPackagesError   |-> NIL,
      pclntab             |-> NIL,
      pkgs                |-> NIL,
      pclntabOnce         |-> FALSE,
      pclntabError        |-> NIL,
      pclntabAddr         |-> NIL,
      runtimeText         |-> NIL,
      moduledata          |-> NoVal,
      initModuleDataOnce  |-> FALSE,
      initModuleDataError |-> NIL,
      osFileClosed        |-> FALSE,
      runs                |-> NoRuns ]

Ran(s, k) == [s EXCEPT !.runs[k] = @ + 1]

\* The result x of a call, handed to the code F that follows the call.
Then(x, F(_)) == CHOOSE v \in { F(r) : r \in {x} } : TRUE

\* file.go:411-471  initPclntab: the body runs once; the error is kept.
initPclntabBody(i, s) ==
    LET s1 == Ran(s, "pcln") IN
    IF i.pcln = "none"
    THEN [s1 EXCEPT !.pclntabError = ErrGetPclntab]
    ELSE LET s2 == [s1 EXCEPT !.pclntabAddr = i.pcln] IN
         IF i.text = "none"
         THEN [s2 EXCEPT !.pclntabError = ErrRuntimeText]
         ELSE [s2 EXCEPT !.runtimeText = i.text]

initPclntab(i, s) ==
    IF s.pclntabOnce THEN [s |-> s, err |-> s.pclntabError]
    ELSE Then(initPclntabBody(i, s), LAMBDA b :
            [s |-> [b EXCEPT !.pclntabOnce = TRUE], err |-> b.pclntabError])

\* file.go:474-480  PCLNTab: a new table over the cached bytes.
PCLNTab(i, s) ==
    Then(initPclntab(i, s), LAMBDA r :
        IF r.err # NIL THEN [s |-> r.s, val |-> NoVal, err |-> r.err]
        ELSE [s |-> r.s, val |-> <<"table", r.s.pclntabAddr, r.s.runtimeText>>, err |-> NIL])

\* file.go:296-381  enumPackages.
enumPackages(i, s) ==
    LET s1 == Ran(s, "enum") IN
    IF (s.BuildInfo.present /\ s.BuildInfo.ModInfo) \/ i.main
    THEN [s |-> [s1 EXCEPT !.pkgs = "catalog"], err |-> NIL]
    ELSE [s |-> s1, err |-> ErrNoMainPackage]

\* initPackages with the error returned only by the call that runs the body
\* and not kept in the object.
initPackages_errorNotKept(i, s) ==
    IF s.initPackagesOnce THEN [s |-> s, err |-> NIL]
    ELSE Then(PCLNTab(i, s), LAMBDA t :
            LET s1 == [t.s EXCEPT !.initPackagesOnce = TRUE] IN
            IF t.err # NIL
            THEN [s |-> s1, err |-> t.err]
            ELSE Then(enumPackages(i, [s1 EXCEPT !.pclntab = t.val]), LAMBDA e :
                    [s |-> e.s, err |-> e.err]))

\* file.go:171-182  initPackages: the body runs once; the error is kept in
\* the object.
initPackages(i, s) ==
    IF s.initPackagesOnce THEN [s |-> s, err |-> s.initPackagesError]
    ELSE Then(PCLNTab(i, s), LAMBDA t :
            LET s1 == [t.s EXCEPT !.initPackagesOnce = TRUE] IN
            IF t.err # NIL
            THEN [s |-> [s1 EXCEPT !.initPackagesError = t.err], err |-> t.err]
            ELSE Then(enumPackages(i, [s1 EXCEPT !.pclntab = t.val]), LAMBDA e :
                    [s |-> [e.s EXCEPT !.initPackagesError = e.err], err |-> e.err]))

\* file.go:266-294  GetPackages, GetVendors, GetSTDLib, GetGeneratedPackages,
\* GetUnknown: each returns its list of the catalog and initPackages' error.
PackageAccessors ==
    {"GetPackages", "GetVendors", "GetSTDLib", "GetGeneratedPackages", "GetUnknown"}

GetPackageList(i, s, name) ==
    Then(initPackages(i, s), LAMBDA r :
        [s |-> r.s, val |-> IF r.s.pkgs = NIL THEN NoVal ELSE <<name, r.s.pkgs>>,
         err |-> r.err])

\* goversion.go:230-350  tryFromSchedInit: needs the catalog (GetSTDLib).
tryFromSchedInit(i, s) ==
    Then(GetPackageList(i, s, "GetSTDLib"), LAMBDA r :
        IF r.err # NIL THEN [s |-> r.s, val |-> NIL]
        ELSE [s |-> r.s, val |-> i.sched])

\* goversion.go:186-224  findGoCompilerVersion.
findGoCompilerVersion(i, s) ==
    Then(tryFromSchedInit(i, Ran(s, "ver")), LAMBDA r :
        IF r.val # NIL THEN [s |-> r.s, val |-> r.val, err |-> NIL]
        ELSE IF i.scan = NIL THEN [s |-> r.s, val |-> NIL, err |-> ErrNoGoVersionFound]
        ELSE [s |-> r.s, val |-> i.scan, err |-> NIL])

\* file.go:219-229  tryExtractCompilerVersion.
tryExtractCompilerVersion(i, s) ==
    IF s.goversion # NIL THEN s
    ELSE Then(findGoCompilerVersion(i, s), LAMBDA r :
            IF r.err # NIL THEN [r.s EXCEPT !.versionError = r.err]
            ELSE [r.s EXCEPT !.goversion = r.val])

\* file.go:210-215  ensureCompilerVersion.
ensureCompilerVersion(i, s) ==
    IF s.goversion # NIL THEN [s |-> s, err |-> s.versionError]
    ELSE Then(tryExtractCompilerVersion(i, s), LAMBDA s1 :
            [s |-> s1, err |-> s1.versionError])

\* file.go:202-208  GetCompilerVersion.
GetCompilerVersion(i, s) ==
    Then(ensureCompilerVersion(i, s), LAMBDA r :
        IF r.err # NIL THEN [s |-> r.s, val |-> NoVal, err |-> r.err]
        ELSE [s |-> r.s, val |-> <<r.s.goversion>>, err |-> NIL])

\* unnamed/part_004:270-298  pickVersionedModuleData: no layout without a
\* version.
pickVersionedModuleData(s) ==
    IF s.goversion = NIL THEN [vmd |-> NIL, err |-> ErrNoGoVersionFound]
    ELSE [vmd |-> s.goversion, err |-> NIL]

\* unnamed/part_004:300-381  extractModuledata: one layout, chosen by the
\* version; the record at runtime.firstmoduledata, else a scan for the
\* PCLNTAB address.
extractModuledata(i, s) ==
    LET p  == pickVersionedModuleData(s)
        s1 == Ran(s, "md") IN
    IF p.err # NIL THEN [s |-> s1, val |-> NoVal, err |-> p.err]
    ELSE IF i.md = "sym"
    THEN [s |-> Ran(s1, "layouts"), val |-> <<"md", p.vmd>>, err |-> NIL]
    ELSE Then(initPclntab(i, s1), LAMBDA t :
            IF t.err # NIL THEN [s |-> t.s, val |-> NoVal, err |-> t.err]
            ELSE IF i.md = "scan"
            THEN [s |-> Ran(t.s, "layouts"), val |-> <<"md", p.vmd>>, err |-> NIL]
            ELSE [s |-> t.s, val |-> NoVal, err |-> ErrNoModuledata])

\* file.go:150-160  initModuleData: the body runs once; the error is kept.
initModuleData(i, s) ==
    IF s.initModuleDataOnce THEN [s |-> s, err |-> s.initModuleDataError]
    ELSE Then(ensureCompilerVersion(i, s), LAMBDA v :
            LET s1 == [v.s EXCEPT !.initModuleDataOnce = TRUE] IN
            IF v.err # NIL
            THEN [s |-> [s1 EXCEPT !.initModuleDataError = v.err], err |-> v.err]
            ELSE Then(extractModuledata(i, s1), LAMBDA m :
                    [s |-> [m.s EXCEPT !.moduledata = m.val, !.initModuleDataError = m.err],
                     err |-> m.err]))

\* file.go:163-169  Moduledata.
Moduledata(i, s) ==
    Then(initModuleData(i, s), LAMBDA r :
        IF r.err # NIL THEN [s |-> r.s, val |-> NoVal, err |-> r.err]
        ELSE [s |-> r.s, val |-> r.s.moduledata, err |-> NIL])

\* file.go:255-262  SetGoVersion.
SetGoVersion(s, version) ==
    LET gv == ResolveGoVersion(version) IN
    IF gv = NIL THEN [s |-> s, err |-> ErrInvalidGoVersion]
    ELSE [s |-> [s EXCEPT !.goversion = gv], err |-> NIL]

\* elf.go:158-164, pe.go:147-153, unnamed/part_001:91-97  Close of the
\* container reader: the parsed file was made by NewFile and owns no closer,
\* so its Close returns nil; then the os.File is closed, and closing a closed
\* os.File returns an error.
fhClose(s) ==
    IF s.osFileClosed THEN [s |-> s, err |-> ErrFileClosed]
    ELSE [s |-> [s EXCEPT !.osFileClosed = TRUE], err |-> NIL]

\* file.go:384-386  Close.
Close(s) == fhClose(s)

Accessors == {"GetCompilerVersion", "PCLNTab", "Moduledata"} \cup PackageAccessors

\* The call of accessor a on the object in state s.
Call(a, i, s) ==
    CASE a = "GetCompilerVersion" -> GetCompilerVersion(i, s)
      [] a = "PCLNTab"            -> PCLNTab(i, s)
      [] a = "Moduledata"         -> Moduledata(i, s)
      [] OTHER                    -> GetPackageList(i, s, a)

Res(r) == [val |-> r.val, err |-> r.err]

Uncalled == [val |-> <<"uncalled">>, err |-> NIL]

Init ==
    /\ img \in Images
    /\ gf = NewGoFile(img)
    /\ first = [a \in Accessors |-> Uncalled]
    /\ last = [a \in Accessors |-> Uncalled]
    /\ calls = 0
    /\ overridden = FALSE
    /\ closeRets = <<>>
    /\ pc = <<>>
    /\ arg = <<>>
    /\ ret = <<>>

\* A caller invokes accessor a (the object is not used after Close).
CallAccessor(a) ==
    /\ calls < MaxCalls
    /\ ~gf.osFileClosed
    /\ \E r \in {Call(a, img, gf)} :
        /\ gf' = r.s
        /\ first' = IF first[a] = Uncalled THEN [first EXCEPT ![a] = Res(r)] ELSE first
        /\ last' = [last EXCEPT ![a] = Res(r)]
    /\ calls' = calls + 1
    /\ UNCHANGED <<img, overridden, closeRets, pc, arg, ret>>

CallSetGoVersion(v) ==
    /\ calls < MaxCalls
    /\ ~gf.osFileClosed
    /\ LET r == SetGoVersion(gf, v) IN
        /\ gf' = r.s
        /\ overridden' = (overridden \/ r.err = NIL)
    /\ calls' = calls + 1
    /\ UNCHANGED <<img, first, last, closeRets, pc, arg, ret>>

CallClose ==
    /\ calls < MaxCalls
    /\ LET r == Close(gf) IN
        /\ gf' = r.s
        /\ closeRets' = Append(closeRets, r.err)
    /\ calls' = calls + 1
    /\ UNCHANGED <<img, first, last, overridden, pc, arg, ret>>

Next ==
    \/ \E a \in Accessors : CallAccessor(a)
    \/ \E v \in {"go1.16", "go9.9"} : CallSetGoVersion(v)
    \/ CallClose

Spec == Init /\ [][Next]_specVars

\* The result of accessor a called first on the freshly opened object.
Fresh(a) == Then(Call(a, img, NewGoFile(img)), Res)

\* C3: for a fixed file, what each accessor returns on its first call does not
\* depend on which other accessors were called before it: it is what the
\* accessor returns on the freshly opened object (no manual version override
\* in between).
C3_OrderIndependent ==
    ~overridden => \A a \in Accessors : first[a] # Uncalled => first[a] = Fresh(a)

\* C3 witness: the catalog was asked for after another accessor had already
\* run the PCLNTAB scan it depends on, and the scan ran once.
C3_Witness ==
    /\ ~overridden
    /\ first["PCLNTab"] # Uncalled
    /\ first["GetSTDLib"] # Uncalled
    /\ first["GetCompilerVersion"] # Uncalled
    /\ first["GetSTDLib"].err # NIL
    /\ gf.runs.pcln = 1

\* C4 (as claimed): when the version cannot be determined, Moduledata()
\* reports NoGoVersionFound only after candidate layouts have been tried on
\* the file.
C4_EnumeratesBeforeNoGoVersion ==
    (first["Moduledata"] # Uncalled /\ first["Moduledata"].err = ErrNoGoVersionFound)
        => gf.runs.layouts > 0

\* C6 (as claimed): the second and every later Close does not fail.
C6_RepeatedCloseSucceeds ==
    \A k \in 2..Len(closeRets) : closeRets[k] = NIL

\* C21 (as claimed): when GetCompilerVersion has returned an error and a
\* SetGoVersion then succeeds, a GetCompilerVersion called on the object as
\* the override leaves it returns the version set, with no error, and a
\* Moduledata called for the first time does not return the error of the
\* failed discovery.
C21_OverrideTakesEffect ==
    [][ (/\ first["GetCompilerVersion"].err # NIL
         /\ ~overridden /\ overridden')
        => /\ Res(GetCompilerVersion(img', gf')) = [val |-> <<gf'.goversion>>, err |-> NIL]
           /\ ~gf'.initModuleDataOnce =>
                 Moduledata(img', gf').err # first["GetCompilerVersion"].err ]_specVars

----------------------------------------------------------------------------
(***************************************************************************)
(* Part 2.  The older file object of unnamed/part_010, whose package       *)
(* accessors go through the method init.  gf holds this object's fields;   *)
(* of img it reads pcln and main.                                          *)
(***************************************************************************)

ErrNoPCLNTab == "ErrNoPCLNTab"

LegacyImages ==
    { i \in Images : /\ i.bi = NoBuildInfo /\ i.text = "sym" /\ i.md = "none"
                     /\ i.sched = NIL /\ i.scan = NIL /\ i.pcln \in {"fh", "none"} }

\* unnamed/part_010:89-102  type GoFile, as Open leaves it
\* (unnamed/part_010:54-85).
NewLegacyGoFile ==
    [ goversion    |-> NIL,
      pclntab      |-> NIL,
      pkgs         |-> NIL,
      initPackages |-> FALSE,
      osFileClosed |-> FALSE,
      runs         |-> NoRuns ]

\* function_test.go:68-79  getPCLNTab of the container reader: reads the
\* table's section on every call.
getPCLNTab(i, s) ==
    LET s1 == Ran(s, "pcln") IN
    IF i.pcln = "none" THEN [s |-> s1, val |-> NoVal, err |-> ErrNoPCLNTab]
    ELSE [s |-> s1, val |-> <<"table", i.pcln>>, err |-> NIL]

\* unnamed/part_010:392-394  PCLNTab.
LegacyPCLNTab(i, s) == getPCLNTab(i, s)

\* unnamed/part_010:221-384  enumPackages: its result once the workers and
\* the collector have finished.
LegacyEnumPackages(i, s) ==
    LET s1 == Ran(s, "enum") IN
    IF i.main THEN [s |-> [s1 EXCEPT !.pkgs = "catalog"], err |-> NIL]
    ELSE [s |-> s1, err |-> ErrNoMainPackage]

\* unnamed/part_010:104-116  init: the body runs once; its error is held in
\* the local returnVal, which is nil in every call that does not run the body.
init(i, s) ==
    IF s.initPackages THEN [s |-> s, err |-> NIL]
    ELSE Then(LegacyPCLNTab(i, s), LAMBDA t :
            LET s1 == [t.s EXCEPT !.initPackages = TRUE] IN
            IF t.err # NIL THEN [s |-> s1, err |-> t.err]
            ELSE LegacyEnumPackages(i, [s1 EXCEPT !.pclntab = t.val]))

\* unnamed/part_010:152-180  GetPackages, GetVendors, GetSTDLib,
\* GetGeneratedPackages, GetUnknown.
LegacyGetPackageList(i, s, name) ==
    Then(init(i, s), LAMBDA r :
        [s |-> r.s, val |-> IF r.s.pkgs = NIL THEN NoVal ELSE <<name, r.s.pkgs>>,
         err |-> r.err])

LegacyAccessors == {"PCLNTab"} \cup PackageAccessors

LegacyCallOf(a, i, s) ==
    IF a = "PCLNTab" THEN LegacyPCLNTab(i, s) ELSE LegacyGetPackageList(i, s, a)

InitLegacy ==
    /\ img \in LegacyImages
    /\ gf = NewLegacyGoFile
    /\ first = [a \in Accessors |-> Uncalled]
    /\ last = [a \in Accessors |-> Uncalled]
    /\ calls = 0
    /\ overridden = FALSE
    /\ closeRets = <<>>
    /\ pc = <<>>
    /\ arg = <<>>
    /\ ret = <<>>

LegacyCall(a) ==
    /\ calls < MaxCalls
    /\ ~gf.osFileClosed
    /\ \E r \in {LegacyCallOf(a, img, gf)} :
        /\ gf' = r.s
        /\ first' = IF first[a] = Uncalled THEN [first EXCEPT ![a] = Res(r)] ELSE first
        /\ last' = [last EXCEPT ![a] = Res(r)]
    /\ calls' = calls + 1
    /\ UNCHANGED <<img, overridden, closeRets, pc, arg, ret>>

\* unnamed/part_010:141-148  SetGoVersion.
LegacySetGoVersion(v) ==
    /\ calls < MaxCalls
    /\ ~gf.osFileClosed
    /\ LET r == SetGoVersion(gf, v) IN
        /\ gf' = r.s
        /\ overridden' = (overridden \/ r.err = NIL)
    /\ calls' = calls + 1
    /\ UNCHANGED <<img, first, last, closeRets, pc, arg, ret>>

\* unnamed/part_010:387-389  Close.
LegacyClose ==
    /\ calls < MaxCalls
    /\ LET r == fhClose(gf) IN
        /\ gf' = r.s
        /\ closeRets' = Append(closeRets, r.err)
    /\ calls' = calls + 1
    /\ UNCHANGED <<img, first, last, overridden, pc, arg, ret>>

NextLegacy ==
    \/ \E a \in LegacyAccessors : LegacyCall(a)
    \/ \E v \in {"go1.16", "go9.9"} : LegacySetGoVersion(v)
    \/ LegacyClose

SpecLegacy == InitLegacy /\ [][NextLegacy]_specVars

\* C1 (as claimed): once the first call of an accessor has returned an error,
\* every later call of that accessor returns the same error.
C1_FailureCached ==
    \A a \in Accessors :
        (first[a] # Uncalled /\ first[a].err # NIL) => last[a].err = first[a].err

----------------------------------------------------------------------------
(***************************************************************************)
(* Part 3.  Two goroutines call accessors of one file object of file.go.   *)
(* A body passed to sync.Once.Do runs under the latch: callers of the same *)
(* latch wait for it.  The statements of ensureCompilerVersion and         *)
(* tryExtractCompilerVersion are under no latch of their own and are       *)
(* separate steps.                                                         *)
(***************************************************************************)

Goroutines == {"g1", "g2"}

ConcAccessors == {"GetCompilerVersion", "Moduledata", "PCLNTab", "GetSTDLib"}

Idle == [at |-> "idle", op |-> NIL, v |-> NIL, e |-> NIL, res |-> Uncalled]

\* file.go:151  a goroutine is inside the body of initModuleDataOnce.Do.
InModuleDataOnce(g) ==
    /\ pc[g].op = "Moduledata"
    /\ pc[g].at \in {"ensure", "tryCheck", "find", "store", "ensureRet", "mdBody"}

InitConc ==
    /\ img \in Images
    /\ gf = NewGoFile(img)
    /\ pc = [g \in Goroutines |-> Idle]
    /\ first = <<>>
    /\ last = <<>>
    /\ calls = 0
    /\ overridden = FALSE
    /\ closeRets = <<>>
    /\ arg = <<>>
    /\ ret = <<>>

ConcUnchanged == UNCHANGED <<img, first, last, calls, overridden, closeRets, arg, ret>>

\* A goroutine enters an accessor.
Begin(g, a) ==
    /\ pc[g].at = "idle"
    /\ pc' = [pc EXCEPT ![g].op = a,
                        ![g].at = CASE a = "GetCompilerVersion" -> "ensure"
                                    [] a = "Moduledata"         -> "mdOnce"
                                    [] OTHER                    -> "latched"]
    /\ UNCHANGED gf
    /\ ConcUnchanged

\* file.go:266-294, 474-480  the package accessors and PCLNTab: all their
\* work is inside initPackagesOnce.Do and pclntabOnce.Do.
Latched(g) ==
    /\ pc[g].at = "latched"
    /\ \E r \in {Call(pc[g].op, img, gf)} :
        /\ gf' = r.s
        /\ pc' = [pc EXCEPT ![g].at = "done", ![g].res = Res(r)]
    /\ ConcUnchanged

\* file.go:151  initModuleDataOnce.Do: returns when the body has run, waits
\* while another goroutine runs it, else runs it.
ModuleDataOnceDo(g) ==
    /\ pc[g].at = "mdOnce"
    /\ \A h \in Goroutines : ~InModuleDataOnce(h)
    /\ pc' = [pc EXCEPT ![g].at = IF gf.initModuleDataOnce THEN "mdRet" ELSE "ensure"]
    /\ UNCHANGED gf
    /\ ConcUnchanged

\* file.go:211  if f.FileInfo.goversion == nil
EnsureCheck(g) ==
    /\ pc[g].at = "ensure"
    /\ pc' = [pc EXCEPT ![g].at = IF gf.goversion = NIL THEN "tryCheck" ELSE "ensureRet"]
    /\ UNCHANGED gf
    /\ ConcUnchanged

\* file.go:220-222  if f.FileInfo.goversion != nil { return }
TryCheck(g) ==
    /\ pc[g].at = "tryCheck"
    /\ pc' = [pc EXCEPT ![g].at = IF gf.goversion # NIL THEN "ensureRet" ELSE "find"]
    /\ UNCHANGED gf
    /\ ConcUnchanged

\* file.go:223  v, err := findGoCompilerVersion(f)
Find(g) ==
    /\ pc[g].at = "find"
    /\ \E r \in {findGoCompilerVersion(img, gf)} :
        /\ gf' = r.s
        /\ pc' = [pc EXCEPT ![g].at = "store", ![g].v = r.val, ![g].e = r.err]
    /\ ConcUnchanged

\* file.go:224-228  the result is stored in the object.
Store(g) ==
    /\ pc[g].at = "store"
    /\ gf' = IF pc[g].e # NIL THEN [gf EXCEPT !.versionError = pc[g].e]
             ELSE [gf EXCEPT !.goversion = pc[g].v]
    /\ pc' = [pc EXCEPT ![g].at = "ensureRet"]
    /\ ConcUnchanged

\* file.go:214  return f.versionError
EnsureRet(g) ==
    /\ pc[g].at = "ensureRet"
    /\ pc' = [pc EXCEPT ![g].e = gf.versionError,
                        ![g].at = IF pc[g].op = "Moduledata" THEN "mdBody" ELSE "gcvRet"]
    /\ UNCHANGED gf
    /\ ConcUnchanged

\* file.go:203-207  GetCompilerVersion returns.
GetCompilerVersionRet(g) ==
    /\ pc[g].at = "gcvRet"
    /\ pc' = [pc EXCEPT ![g].at = "done",
                        ![g].res = IF pc[g].e # NIL THEN [val |-> NoVal, err |-> pc[g].e]
                                   ELSE [val |-> <<gf.goversion>>, err |-> NIL]]
    /\ UNCHANGED gf
    /\ ConcUnchanged

\* file.go:153-157  the rest of the body of initModuleDataOnce.Do.
ModuleDataBody(g) ==
    /\ pc[g].at = "mdBody"
    /\ LET s1 == [gf EXCEPT !.initModuleDataOnce = TRUE] IN
       IF pc[g].e # NIL
       THEN gf' = [s1 EXCEPT !.initModuleDataError = pc[g].e]
       ELSE \E m \in {extractModuledata(img, s1)} :
               gf' = [m.s EXCEPT !.moduledata = m.val, !.initModuleDataError = m.err]
    /\ pc' = [pc EXCEPT ![g].at = "mdRet"]
    /\ ConcUnchanged

\* file.go:159, 164-168  Moduledata returns.
ModuledataRet(g) ==
    /\ pc[g].at = "mdRet"
    /\ pc' = [pc EXCEPT ![g].at = "done",
                        ![g].res = IF gf.initModuleDataError # NIL
                                   THEN [val |-> NoVal, err |-> gf.initModuleDataError]
                                   ELSE [val |-> gf.moduledata, err |-> NIL]]
    /\ UNCHANGED gf
    /\ ConcUnchanged

NextConc ==
    \E g \in Goroutines :
        \/ \E a \in ConcAccessors : Begin(g, a)
        \/ Latched(g)
        \/ ModuleDataOnceDo(g)
        \/ EnsureCheck(g)
        \/ TryCheck(g)
        \/ Find(g)
        \/ Store(g)
        \/ EnsureRet(g)
        \/ GetCompilerVersionRet(g)
        \/ ModuleDataBody(g)
        \/ ModuledataRet(g)

SpecConc == InitConc /\ [][NextConc]_specVars

\* C2 (as claimed): with several goroutines calling accessors of one object,
\* each derivation (PCLNTAB, package catalog, compiler version, moduledata) is
\* computed at most once.
C2_EachDerivationOnce ==
    \A k \in {"pcln", "enum", "ver", "md"} : gf.runs[k] <= 1

----------------------------------------------------------------------------
(***************************************************************************)
(* Part 4.  Open (file.go:48-111) on the description arg of a file:        *)
(*   kind   what the first four bytes say: "elf", "pe", "macho", "other"   *)
(*   parse  what the container parser does with the file: "ok", "err",     *)
(*          and for debug/pe also "panic"                                  *)
(*   hdr    the PE optional header: "32", "64", "none"                     *)
(*   cpu    the Mach-O CPU: "amd64", "other"                               *)
(*   note   the ELF section .note.go.buildid                               *)
(*   raw    where bytes.Index finds the raw build ID's start and end       *)
(*          markers in the code section (-1: not found)                    *)
(*   binfo  the build info section                                         *)
(* A call's outcome out is "ok", "error" or "panic" (a run-time panic      *)
(* that nothing recovers).  A build ID is modelled by its length.          *)
(***************************************************************************)

\* buildid.go:15  len(goNoteRawStart)
goNoteRawStartLen == 16
\* buildid.go:24-41  the note header: three uint32
noteHeaderLen == 12
\* buildid.go:14  len(goNoteNameELF)
goNoteNameLen == 4
\* stdpkg_gen.go:427  len(buildInfoMagic)
buildInfoMagicLen == 14
\* stdpkg_gen.go:431
buildInfoSectionSize == 32

NoNote == [present |-> FALSE, size |-> 0, nameLen |-> 0, idLen |-> 0, tag |-> 0, nameOK |-> FALSE]
Notes ==
    {NoNote} \cup [present : {TRUE}, size : {8, 12, 16, 24}, nameLen : {4, 8},
                   idLen : {0, 8}, tag : {4, 5}, nameOK : BOOLEAN]

NoRaw == [start |-> -1, end |-> -1]
Raws == [start : {-1, 0, 4}, end : {-1, 2, 19, 40}]

NoBInfo == [magicAt |-> -1, secLen |-> 0, strs |-> "ok"]
BInfos ==
    { b \in [magicAt : {-1, 0, 16}, secLen : {16, 32, 48}, strs : {"ok", "err"}] :
        b.magicAt = -1 \/ b.magicAt + buildInfoMagicLen <= b.secLen }

OpenArgs ==
    [kind : {"elf"}, parse : {"ok", "err"}, hdr : {"none"}, cpu : {"amd64"},
     note : Notes, raw : {NoRaw}, binfo : BInfos]
    \cup
    [kind : {"pe"}, parse : {"ok", "err", "panic"}, hdr : {"32", "64", "none"},
     cpu : {"amd64"}, note : {NoNote}, raw : Raws, binfo : BInfos]
    \cup
    [kind : {"macho"}, parse : {"ok", "err"}, hdr : {"none"}, cpu : {"amd64", "other"},
     note : {NoNote}, raw : Raws, binfo : BInfos]
    \cup
    [kind : {"other"}, parse : {"err"}, hdr : {"none"}, cpu : {"amd64"},
     note : {NoNote}, raw : {NoRaw}, binfo : {NoBInfo}]

\* elf.go:28-38  openELF.
openELF(a) == IF a.parse = "ok" THEN "ok" ELSE "error"

\* pe.go:31-67  openPE.  The function that calls recover is started as a
\* goroutine (pe.go:35-39), not deferred: recover returns nil there, and a
\* panic of pe.NewFile unwinds openPE and its callers.
openPE(a) ==
    IF a.parse = "panic" THEN "panic"
    ELSE IF a.parse = "err" THEN "error"
    ELSE IF a.hdr = "none" THEN "error"
    ELSE "ok"

\* unnamed/part_001:30-41  openMachO.
openMachO(a) == IF a.parse = "ok" THEN "ok" ELSE "error"

\* elf.go:261-289, macho.go:151-170  getFileInfo.
getFileInfo(a) ==
    IF a.kind = "macho" /\ a.cpu = "other" THEN "panic" ELSE "ok"

\* buildid.go:19-46  parseBuildIDFromElf on the note section's bytes n.
parseBuildIDFromElf(n) ==
    IF n.size < noteHeaderLen THEN [out |-> "error", id |-> 0]
    ELSE IF n.tag # 4 THEN [out |-> "error", id |-> 0]
    ELSE IF noteHeaderLen + n.nameLen > n.size THEN [out |-> "panic", id |-> 0]
    ELSE IF ~(n.nameLen = goNoteNameLen /\ n.nameOK) THEN [out |-> "error", id |-> 0]
    ELSE IF 16 + n.idLen > n.size THEN [out |-> "panic", id |-> 0]
    ELSE [out |-> "ok", id |-> n.idLen]

\* buildid.go:48-59  parseBuildIDFromRaw: both markers are searched from the
\* start of the data.
parseBuildIDFromRaw(r) ==
    IF r.start < 0 THEN [out |-> "ok", id |-> 0]
    ELSE IF r.end < 0 THEN [out |-> "error", id |-> 0]
    ELSE IF r.start + goNoteRawStartLen > r.end THEN [out |-> "panic", id |-> 0]
    ELSE [out |-> "ok", id |-> r.end - (r.start + goNoteRawStartLen)]

\* elf.go:291-301, pe.go:267-273, macho.go:180-186  getBuildID.
getBuildID(a) ==
    IF a.kind = "elf"
    THEN IF ~a.note.present THEN [out |-> "ok", id |-> 0]
         ELSE parseBuildIDFromElf(a.note)
    ELSE parseBuildIDFromRaw(a.raw)

\* stdpkg_gen.go:444-511  extractBuildInfo.
extractBuildInfo(b) ==
    IF b.magicAt = -1 THEN "error"
    ELSE IF b.magicAt + buildInfoSectionSize > b.secLen THEN "panic"
    ELSE IF b.strs = "err" THEN "error"
    ELSE "ok"

Panicked == [out |-> "panic", BuildID |-> 0, BuildInfo |-> FALSE]
Failed == [out |-> "error", BuildID |-> 0, BuildInfo |-> FALSE]

\* file.go:70-89  the container reader chosen by the magic.
openHandler(a) ==
    CASE a.kind = "elf"   -> openELF(a)
      [] a.kind = "pe"    -> openPE(a)
      [] a.kind = "macho" -> openMachO(a)
      [] OTHER            -> "error"

\* file.go:48-111  Open.
Open(a) ==
    LET fh == openHandler(a)
        id == getBuildID(a)
        bi == extractBuildInfo(a.binfo)
    IN  IF fh = "panic" THEN Panicked
        ELSE IF fh = "error" THEN Failed
        ELSE IF getFileInfo(a) = "panic" THEN Panicked
        ELSE IF id.out = "panic" THEN Panicked
        ELSE IF bi = "panic" THEN Panicked
        ELSE [out |-> "ok",
              BuildID |-> IF id.out = "ok" THEN id.id ELSE 0,
              BuildInfo |-> (bi = "ok")]

Pending == [out |-> "pending", BuildID |-> 0, BuildInfo |-> FALSE]

InitOpen ==
    /\ arg \in OpenArgs
    /\ ret = Pending
    /\ img = <<>>
    /\ gf = <<>>
    /\ first = <<>>
    /\ last = <<>>
    /\ calls = 0
    /\ overridden = FALSE
    /\ closeRets = <<>>
    /\ pc = <<>>

CallOpen ==
    /\ ret = Pending
    /\ ret' = Open(arg)
    /\ UNCHANGED <<img, gf, first, last, calls, overridden, closeRets, pc, arg>>

NextOpen == CallOpen

SpecOpen == InitOpen /\ [][NextOpen]_specVars

\* C5 (as claimed): when the PE reader panics while parsing the file, Open
\* returns an error; the panic does not reach the caller.
C5_PEPanicBecomesError ==
    (ret # Pending /\ arg.kind = "pe" /\ arg.parse = "panic") => ret.out = "error"

\* C7 (as claimed): when the container parses, Open succeeds whatever the
\* state of the build ID and of the build info is (missing, truncated,
\* malformed).
C7_OpenToleratesBuildGaps ==
    (/\ ret # Pending
     /\ openHandler(arg) = "ok"
     /\ getFileInfo(arg) = "ok")
        => ret.out = "ok"

\* C14 (as claimed): Open of a Mach-O file whose CPU is not 386, amd64 or
\* arm64 returns an error.
C14_UnsupportedMachOCPUIsError ==
    (ret # Pending /\ arg.kind = "macho" /\ arg.cpu = "other") => ret.out = "error"

----------------------------------------------------------------------------
(***************************************************************************)
(* Part 5.  Bytes (file.go:582-593).  Addresses and lengths are unsigned   *)
(* words; the arithmetic wraps at the word's modulus.  arg holds the       *)
(* sections of the file and the call's address and length.                 *)
(***************************************************************************)

\* The modulus of the unsigned words (2^64 in the code).
WordMod == 16

Words == 0 .. WordMod - 1

Add(a, b) == (a + b) % WordMod
Sub(a, b) == (a - b + WordMod) % WordMod

\* Section tables: address, size and file offset of each section (offset 0:
\* the section exists in memory only).
SectionTables ==
    { << [Addr |-> 4, Size |-> 4, Offset |-> 1], [Addr |-> 10, Size |-> 3, Offset |-> 0] >>,
      << [Addr |-> 2, Size |-> 3, Offset |-> 1], [Addr |-> 8, Size |-> 6, Offset |-> 2] >> }

RECURSIVE sectionFrom(_, _, _)
\* elf.go:237-250, pe.go:231-244, macho.go:116-131  getSectionDataFromAddress:
\* the first file-backed section that holds the address, searched from
\* index k.
sectionFrom(secs, address, k) ==
    IF k > Len(secs) THEN [err |-> TRUE, base |-> 0, len |-> 0]
    ELSE IF secs[k].Offset = 0 THEN sectionFrom(secs, address, k + 1)
    ELSE IF secs[k].Addr <= address /\ address < Add(secs[k].Addr, secs[k].Size)
    THEN [err |-> FALSE, base |-> secs[k].Addr, len |-> secs[k].Size]
    ELSE sectionFrom(secs, address, k + 1)

getSectionDataFromAddress(secs, address) == sectionFrom(secs, address, 1)

\* file.go:582-593  Bytes; n is the number of bytes returned.  A slice
\* expression whose low bound exceeds its high bound panics.
Bytes(secs, address, length) ==
    LET sec == getSectionDataFromAddress(secs, address)
        hi  == Sub(Add(address, length), sec.base)
        lo  == Sub(address, sec.base)
    IN  IF sec.err THEN [out |-> "error", n |-> 0]
        ELSE IF hi > sec.len THEN [out |-> "error", n |-> 0]
        ELSE IF lo > hi THEN [out |-> "panic", n |-> 0]
        ELSE [out |-> "ok", n |-> hi - lo]

BytesPending == [out |-> "pending", n |-> 0]

InitBytes ==
    /\ arg \in [secs : SectionTables, address : Words, length : Words]
    /\ ret = BytesPending
    /\ img = <<>>
    /\ gf = <<>>
    /\ first = <<>>
    /\ last = <<>>
    /\ calls = 0
    /\ overridden = FALSE
    /\ closeRets = <<>>
    /\ pc = <<>>

CallBytes ==
    /\ ret = BytesPending
    /\ ret' = Bytes(arg.secs, arg.address, arg.length)
    /\ UNCHANGED <<img, gf, first, last, calls, overridden, closeRets, pc, arg>>

NextBytes == CallBytes

SpecBytes == InitBytes /\ [][NextBytes]_specVars

\* The range [address, address+length), without wrap-around, lies inside the
\* file-backed section sec.
RangeInside(sec) ==
    /\ sec.Offset # 0
    /\ sec.Addr <= arg.address
    /\ arg.address + arg.length <= sec.Addr + sec.Size

\* C8 (as claimed): Bytes returns length bytes when the range lies inside one
\* file-backed section (and starts inside it), and an error when the range
\* lies inside none.
C8_BytesTotal ==
    ret # BytesPending =>
        /\ (\E k \in DOMAIN arg.secs :
                RangeInside(arg.secs[k]) /\ arg.address < arg.secs[k].Addr + arg.secs[k].Size)
              => (ret.out = "ok" /\ ret.n = arg.length)
        /\ (\A k \in DOMAIN arg.secs : ~RangeInside(arg.secs[k]))
              => ret.out = "error"

----------------------------------------------------------------------------
(***************************************************************************)
(* Part 6.  The validation of a moduledata record.  arg holds the code     *)
(* section (address and length) and the records found at the successive    *)
(* matches of the PCLNTAB address in the moduledata section, each with its *)
(* TextAddr and TextLen.                                                   *)
(***************************************************************************)

\* Bound on the number of matches in the moduledata section.
MaxMatches == 2

CodeSections == { [Addr |-> 4, Len |-> 4] }

Records == [TextAddr : {0, 4, 6, 12}, TextLen : {0, 2, 6, 14}]

MatchLists == UNION { [1..n -> Records] : n \in 1..MaxMatches }

\* unnamed/part_004:357-371  the validation step of extractModuledata.
simpleValidation(md, code) ==
    LET text  == md.TextAddr
        etext == Add(md.TextAddr, md.TextLen)
    IN  /\ ~(text > etext)
        /\ code.Addr <= text
        /\ text < Add(code.Addr, code.Len)

\* unnamed/part_005:266-280  validateModuledata.
validateModuledata(md, code) ==
    LET mdTextStart == md.TextAddr
        mdTextEnd   == Add(md.TextAddr, md.TextLen)
    IN  code.Addr <= mdTextStart /\ mdTextEnd <= Add(code.Addr, code.Len)

RECURSIVE searchFrom(_, _, _)
\* unnamed/part_004:336-380  the loop of labels search, load and invalidMD:
\* the record at the next match is read and returned when it is valid.
searchFrom(cands, code, k) ==
    IF k > Len(cands) THEN [out |-> "error", md |-> [TextAddr |-> 0, TextLen |-> 0]]
    ELSE IF simpleValidation(cands[k], code) THEN [out |-> "ok", md |-> cands[k]]
    ELSE searchFrom(cands, code, k + 1)

\* unnamed/part_005:282-386  searchModuledata with the layout known: trySearch
\* looks for the match in secData on every round, so every round reads the
\* record at the first match; when it is invalid the rounds go on until
\* current[offset+1:] is out of range.
searchModuledata(cands, code) ==
    IF validateModuledata(cands[1], code) THEN [out |-> "ok", md |-> cands[1]]
    ELSE [out |-> "panic", md |-> [TextAddr |-> 0, TextLen |-> 0]]

MDPending == [out |-> "pending", md |-> [TextAddr |-> 0, TextLen |-> 0]]

InitMD ==
    /\ arg \in [code : CodeSections, cands : MatchLists]
    /\ ret = MDPending
    /\ img = <<>>
    /\ gf = <<>>
    /\ first = <<>>
    /\ last = <<>>
    /\ calls = 0
    /\ overridden = FALSE
    /\ closeRets = <<>>
    /\ pc = <<>>

\* unnamed/part_004:300-381  extractModuledata, the scan.
CallExtractModuledata ==
    /\ ret = MDPending
    /\ ret' = searchFrom(arg.cands, arg.code, 1)
    /\ UNCHANGED <<img, gf, first, last, calls, overridden, closeRets, pc, arg>>

\* unnamed/part_005:451-477  extractModuledata, the scan.
CallSearchModuledata ==
    /\ ret = MDPending
    /\ ret' = searchModuledata(arg.cands, arg.code)
    /\ UNCHANGED <<img, gf, first, last, calls, overridden, closeRets, pc, arg>>

NextMD == CallExtractModuledata \/ CallSearchModuledata

SpecMD == InitMD /\ [][NextMD]_specVars

\* C9 (as claimed): a returned record has text <= etext without wrap-around,
\* and text and etext are inside the code section's address range.
C9_TextInsideCode ==
    ret.out = "ok" =>
        /\ ret.md.TextAddr + ret.md.TextLen < WordMod
        /\ arg.code.Addr <= ret.md.TextAddr
        /\ ret.md.TextAddr + ret.md.TextLen <= arg.code.Addr + arg.code.Len

----------------------------------------------------------------------------
(***************************************************************************)
(* Part 7.  PCLNTAB discovery.  Bytes are numbers 0..255 and data are      *)
(* sequences of bytes.  arg describes the file:                            *)
(*   kind    "elf" or "macho"                                              *)
(*   order   the file's byte order, "LE" or "BE"                           *)
(*   sym     the bytes between runtime.pclntab and runtime.epclntab        *)
(*   named   the bytes of the table's own section                          *)
(*   relro   the bytes of .data.rel.ro                                     *)
(* each with present = FALSE when the file has no such symbols or section. *)
(***************************************************************************)

\* dwarf.go:205-210  the low bytes of gopclntab120magic, gopclntab118magic,
\* gopclntab116magic and gopclntab12magic, in the order they are searched
\* (dwarf.go:219); their other three bytes are ff.
MagicLowBytes == <<241, 240, 250, 251>>

\* dwarf.go:220-221  bMagic: order.PutUint32 of the magic and two zero bytes.
bMagic(low, order) ==
    IF order = "LE" THEN <<low, 255, 255, 255, 0, 0>> ELSE <<255, 255, 255, low, 0, 0>>

\* bytes.HasPrefix of the data from the 0-based offset off.
MatchAt(data, off, m) ==
    /\ off + Len(m) <= Len(data)
    /\ \A j \in 1..Len(m) : data[off + j] = m[j]

\* bytes.LastIndex over data[:limit].
LastIndex(data, limit, m) ==
    LET hits == { off \in 0..limit : off + Len(m) <= limit /\ MatchAt(data, off, m) }
    IN  IF hits = {} THEN -1 ELSE CHOOSE off \in hits : \A o \in hits : o <= off

\* dwarf.go:230-232  the header test on buf = secData[off:].
HeaderMismatch(data, off) ==
    \/ Len(data) - off < 16
    \/ data[off + 5] # 0
    \/ data[off + 6] # 0
    \/ data[off + 7] \notin {1, 2, 4}
    \/ data[off + 8] \notin {4, 8}

RECURSIVE offLoop(_, _, _)
\* dwarf.go:227-244  the loop over the matches of one magic, from the last
\* match off backwards: the accepted offset, or -1 to go on with the next
\* magic.
offLoop(data, off, m) ==
    IF off = -1 THEN -1
    ELSE IF off = 0 THEN -1
    ELSE IF HeaderMismatch(data, off)
         THEN IF off - 1 <= 0 THEN -1
              ELSE offLoop(data, LastIndex(data, off - 1, m), m)
    ELSE off

RECURSIVE magicLoop(_, _, _)
\* dwarf.go:219-246  MagicLoop, from the k-th magic.
magicLoop(data, order, k) ==
    IF k > Len(MagicLowBytes) THEN [err |-> TRUE, data |-> <<>>]
    ELSE LET m   == bMagic(MagicLowBytes[k], order)
             off == offLoop(data, LastIndex(data, Len(data), m), m)
         IN  IF off = -1 THEN magicLoop(data, order, k + 1)
             ELSE [err |-> FALSE, data |-> SubSeq(data, off + 1, Len(data))]

\* dwarf.go:213-247  searchSectionForTab.
searchSectionForTab(secData, order) == magicLoop(secData, order, 1)

\* file.go:388-409  getPCLNTABDataBySymbol: the bytes between the two symbols.
getPCLNTABDataBySymbol(a) ==
    IF a.sym.present THEN [err |-> FALSE, data |-> a.sym.data]
    ELSE [err |-> TRUE, data |-> <<>>]

\* elf.go:186-231, macho.go:172-174  getPCLNTABData.  In elf.go the branch of
\* line 204 needs an error and a symbol table together, which hasSymbolTable
\* (elf.go:98-104) never returns.
getPCLNTABData(a) ==
    IF a.named.present THEN [err |-> FALSE, data |-> a.named.data]
    ELSE IF a.kind = "macho" THEN [err |-> TRUE, data |-> <<>>]
    ELSE IF ~a.relro.present THEN [err |-> TRUE, data |-> <<>>]
    ELSE searchSectionForTab(a.relro.data, a.order)

\* file.go:413-422  the table's bytes as initPclntab obtains them.
pclntabBytes(a) ==
    LET bySym == getPCLNTABDataBySymbol(a) IN
    IF ~bySym.err THEN [out |-> "ok", data |-> bySym.data]
    ELSE LET byFh == getPCLNTABData(a) IN
         IF byFh.err THEN [out |-> "error", data |-> <<>>]
         ELSE [out |-> "ok", data |-> byFh.data]

Zeros8 == <<0, 0, 0, 0, 0, 0, 0, 0>>

\* Tables: a magic in either byte order, padding, quantum and pointer size.
Headers ==
    { <<b1, 255, 255, b4, 0, 0, q, 8>> \o Zeros8 :
        b1 \in {251, 255}, b4 \in {255, 241}, q \in {1, 3} }

Absent == [present |-> FALSE, data |-> <<>>]

Blobs ==
    {Absent} \cup { [present |-> TRUE, data |-> d] :
                      d \in { <<251, 255, 255, 255, 0, 0, 1, 8>> \o Zeros8, <<7, 7, 7, 7>> } }

\* The 16 bytes fa ff ff ff 00 00 02 08 00.., and the same with byte 4 set
\* to 1 or byte 7 set to 3.
HeaderBuffers ==
    { <<250, 255, 255, 255, b4, 0, 2, b7>> \o Zeros8 : b4 \in {0, 1}, b7 \in {8, 3} }

\* Sections with one table, at offset 0 or 1, and sections with two.
Sections ==
    {Absent}
        \cup { [present |-> TRUE, data |-> pre \o h \o post] :
                 pre \in {<<>>, <<7>>}, h \in Headers \cup HeaderBuffers,
                 post \in {<<>>, <<9>>} }
        \cup { [present |-> TRUE, data |-> <<7>> \o h1 \o h2] :
                 h1 \in Headers, h2 \in Headers }

TabArgs ==
    [kind : {"elf", "macho"}, order : {"LE", "BE"}, sym : Blobs, named : Blobs,
     relro : Sections]

TabPending == [out |-> "pending", data |-> <<>>]

InitTab ==
    /\ arg \in TabArgs
    /\ ret = TabPending
    /\ img = <<>>
    /\ gf = <<>>
    /\ first = <<>>
    /\ last = <<>>
    /\ calls = 0
    /\ overridden = FALSE
    /\ closeRets = <<>>
    /\ pc = <<>>

CallPclntabBytes ==
    /\ ret = TabPending
    /\ ret' = pclntabBytes(arg)
    /\ UNCHANGED <<img, gf, first, last, calls, overridden, closeRets, pc, arg>>

NextTab == CallPclntabBytes

SpecTab == InitTab /\ [][NextTab]_specVars

\* C10 (as claimed): when the discovery succeeds, the table's bytes begin with
\* fb, fa, f0 or f1 followed by ff ff ff, whichever path found them.
C10_TableStartsWithMagic ==
    ret.out = "ok" =>
        /\ Len(ret.data) >= 4
        /\ ret.data[1] \in {251, 250, 240, 241}
        /\ ret.data[2] = 255 /\ ret.data[3] = 255 /\ ret.data[4] = 255

\* The section search decides the outcome: no symbols, no section of the
\* table's own, an ELF file with .data.rel.ro.
Searched(a) ==
    ~a.sym.present /\ ~a.named.present /\ a.kind = "elf" /\ a.relro.present

\* A recognized magic in the file's byte order, without the padding.
Magic4(low, order) ==
    IF order = "LE" THEN <<low, 255, 255, 255>> ELSE <<255, 255, 255, low>>

MagicOffsets(data, order) ==
    { off \in 0..(Len(data) - 1) :
        \E k \in 1..Len(MagicLowBytes) : MatchAt(data, off, Magic4(MagicLowBytes[k], order)) }

\* The header check as the claims state it, on the bytes from offset off.
HeaderPasses(data, off) ==
    /\ Len(data) - off >= 16
    /\ data[off + 5] = 0 /\ data[off + 6] = 0
    /\ data[off + 7] \in {1, 2, 4}
    /\ data[off + 8] \in {4, 8}

PassingOffsets(data, order) ==
    { off \in MagicOffsets(data, order) : HeaderPasses(data, off) }

\* C22 (as claimed): the search returns the bytes from the last offset at
\* which a magic is followed by a passing header, and ErrNoPCLNTab only when
\* there is no such offset.
C22_LastPassingOccurrence ==
    (ret.out # "pending" /\ Searched(arg)) =>
        IF PassingOffsets(arg.relro.data, arg.order) = {}
        THEN ret.out = "error"
        ELSE /\ ret.out = "ok"
             /\ \E off \in PassingOffsets(arg.relro.data, arg.order) :
                   /\ \A o \in PassingOffsets(arg.relro.data, arg.order) : o <= off
                   /\ ret.data = SubSeq(arg.relro.data, off + 1, Len(arg.relro.data))

\* C23 (as claimed): a candidate is accepted exactly when 16 bytes remain,
\* bytes +4 and +5 are zero, byte +6 is 1, 2 or 4 and byte +7 is 4 or 8; the
\* 16 bytes fa ff ff ff 00 00 02 08 .. alone are accepted, and are rejected
\* with byte 7 set to 3 or byte 4 set to 1.
C23_HeaderCheck ==
    (ret.out # "pending" /\ Searched(arg)) =>
        /\ (ret.out = "ok") <=>
              (\E off \in MagicOffsets(arg.relro.data, arg.order) :
                  HeaderPasses(arg.relro.data, off))
        /\ (arg.order = "LE" /\ arg.relro.data \in HeaderBuffers) =>
              ((ret.out = "ok") <=>
                  (arg.relro.data[5] = 0 /\ arg.relro.data[8] = 8))

----------------------------------------------------------------------------
(***************************************************************************)
(* Part 8.  GoVersionCompare (goversion.go).                               *)
(*                                                                         *)
(* A version string is a sequence of one-character strings, so that the    *)
(* splitting, slicing and number parsing of the comparison are computed    *)
(* as the code computes them.  The result of a call is a record: out is    *)
(* "ok" with the returned integer in val, or "panic".                      *)
(***************************************************************************)
Digits == <<"0", "1", "2", "3", "4", "5", "6", "7", "8", "9">>

IsDigit(c) == \E i \in 1..10 : Digits[i] = c

DigitVal(c) == (CHOOSE i \in 1..10 : Digits[i] = c) - 1

RECURSIVE DecVal(_)
DecVal(s) ==
    IF s = <<>> THEN 0
    ELSE 10 * DecVal(SubSeq(s, 1, Len(s) - 1)) + DigitVal(s[Len(s)])

\* strconv.Atoi on a string without a sign character: an error for the empty
\* string and for any character that is not a decimal digit.
Atoi(s) ==
    IF s = <<>> \/ \E i \in 1..Len(s) : ~IsDigit(s[i])
    THEN [ok |-> FALSE, n |-> 0]
    ELSE [ok |-> TRUE, n |-> DecVal(s)]

\* strings.Index: the position (from 0) of the first occurrence, or -1.
Index(s, sub) ==
    IF \E i \in 0..(Len(s) - Len(sub)) : SubSeq(s, i + 1, i + Len(sub)) = sub
    THEN CHOOSE i \in 0..(Len(s) - Len(sub)) :
            /\ SubSeq(s, i + 1, i + Len(sub)) = sub
            /\ \A j \in 0..(i - 1) : SubSeq(s, j + 1, j + Len(sub)) # sub
    ELSE -1

\* strings.Split on a one-character separator.
RECURSIVE Split(_, _)
Split(s, sep) ==
    IF Index(s, <<sep>>) < 0 THEN <<s>>
    ELSE <<SubSeq(s, 1, Index(s, <<sep>>))>>
            \o Split(SubSeq(s, Index(s, <<sep>>) + 2, Len(s)), sep)

StrGo == <<"g", "o">>
StrBeta == <<"b", "e", "t", "a">>
StrRc == <<"r", "c">>

CmpPanic == [out |-> "panic", val |-> 0]
CmpRet(v) == [out |-> "ok", val |-> v]

\* Lines 78-100 (and 101-123 for b): the minor number and the beta or rc
\* number of the second component; ok is FALSE where the code panics.
parseMinor(p) ==
    IF Index(p, StrBeta) >= 0
    THEN [ok   |-> Atoi(SubSeq(p, Index(p, StrBeta) + 5, Len(p))).ok
                     /\ Atoi(SubSeq(p, 1, Index(p, StrBeta))).ok,
          min  |-> Atoi(SubSeq(p, 1, Index(p, StrBeta))).n,
          beta |-> Atoi(SubSeq(p, Index(p, StrBeta) + 5, Len(p))).n,
          rc   |-> 0]
    ELSE IF Index(p, StrRc) >= 0
    THEN [ok   |-> Atoi(SubSeq(p, Index(p, StrRc) + 3, Len(p))).ok
                     /\ Atoi(SubSeq(p, 1, Index(p, StrRc))).ok,
          min  |-> Atoi(SubSeq(p, 1, Index(p, StrRc))).n,
          beta |-> 0,
          rc   |-> Atoi(SubSeq(p, Index(p, StrRc) + 3, Len(p))).n]
    ELSE [ok |-> Atoi(p).ok, min |-> Atoi(p).n, beta |-> 0, rc |-> 0]

\* Lines 160-183 with beta and rc exchanged: a beta sorts above an rc.
comparePre_rcBelowBeta(pa, pb) ==
    IF pa.rc < pb.rc THEN (IF pa.rc # 0 THEN CmpRet(-1) ELSE CmpRet(1))
    ELSE IF pa.rc > pb.rc THEN (IF pb.rc # 0 THEN CmpRet(1) ELSE CmpRet(-1))
    ELSE IF pa.beta < pb.beta THEN (IF pa.beta # 0 THEN CmpRet(-1) ELSE CmpRet(1))
    ELSE IF pb.beta # 0 THEN CmpRet(1)
    ELSE CmpRet(-1)

\* Lines 160-183: beta, rc and plain release of one major.minor.
comparePre(pa, pb) ==
    IF pa.beta < pb.beta THEN (IF pa.beta # 0 THEN CmpRet(-1) ELSE CmpRet(1))
    ELSE IF pa.beta > pb.beta THEN (IF pb.beta # 0 THEN CmpRet(1) ELSE CmpRet(-1))
    ELSE IF pa.rc < pb.rc THEN (IF pa.rc # 0 THEN CmpRet(-1) ELSE CmpRet(1))
    ELSE IF pb.rc # 0 THEN CmpRet(1)
    ELSE CmpRet(-1)

\* Lines 131-158: patch releases.
comparePatch(aa, ab, pa, pb) ==
    IF Len(aa) > Len(ab) THEN CmpRet(1)
    ELSE IF Len(aa) < Len(ab) THEN CmpRet(-1)
    ELSE IF Len(aa) = 3 /\ Len(ab) = 3
    THEN IF ~Atoi(aa[3]).ok \/ ~Atoi(ab[3]).ok THEN CmpPanic
         ELSE IF Atoi(aa[3]).n > Atoi(ab[3]).n THEN CmpRet(1)
         ELSE CmpRet(-1)
    ELSE comparePre(pa, pb)

\* Lines 73-129: the minor numbers.
compareMinor(aa, ab, pa, pb) ==
    IF ~pa.ok \/ ~pb.ok THEN CmpPanic
    ELSE IF pa.min < pb.min THEN CmpRet(-1)
    ELSE IF pa.min > pb.min THEN CmpRet(1)
    ELSE comparePatch(aa, ab, pa, pb)

\* Lines 52-71.  A first component shorter than two characters panics in
\* the slice expression whichever side it is on: aa[0][:2] at line 52, and
\* ab[0][:2] at line 52 or ab[0][2:] at line 59.
compareMajor(aa, ab) ==
    IF Len(aa[1]) < 2 \/ Len(ab[1]) < 2 THEN CmpPanic
    ELSE IF SubSeq(aa[1], 1, 2) # StrGo /\ SubSeq(ab[1], 1, 2) # StrGo THEN CmpPanic
    ELSE IF ~Atoi(SubSeq(aa[1], 3, Len(aa[1]))).ok THEN CmpPanic
    ELSE IF ~Atoi(SubSeq(ab[1], 3, Len(ab[1]))).ok THEN CmpPanic
    ELSE IF Atoi(SubSeq(aa[1], 3, Len(aa[1]))).n < Atoi(SubSeq(ab[1], 3, Len(ab[1]))).n
    THEN CmpRet(-1)
    ELSE IF Atoi(SubSeq(aa[1], 3, Len(aa[1]))).n > Atoi(SubSeq(ab[1], 3, Len(ab[1]))).n
    THEN CmpRet(1)
    ELSE IF Len(aa) = 1 THEN CmpRet(-1)
    ELSE IF Len(ab) = 1 THEN CmpRet(1)
    ELSE compareMinor(aa, ab, parseMinor(aa[2]), parseMinor(ab[2]))

GoVersionCompare(a, b) ==
    IF a = b THEN CmpRet(0)
    ELSE compareMajor(Split(a, "."), Split(b, "."))

\* Bound on the number N of a betaN, an rcN and a patch release.
MaxN == 2

Majors == {1, 2}
Minors == {9, 16}

\* Tags of the forms the comparison's tests use: goMAJ, goMAJ.MIN,
\* goMAJ.MINbetaN, goMAJ.MINrcN and goMAJ.MIN.PATCH.
Tags ==
    [maj : Majors, min : {0}, kind : {"bare"}, n : {0}]
        \cup [maj : Majors, min : Minors, kind : {"release"}, n : {0}]
        \cup [maj : Majors, min : Minors, kind : {"beta", "rc"}, n : 1..MaxN]
        \cup [maj : Majors, min : Minors, kind : {"patch"}, n : 0..MaxN]

RECURSIVE Itoa(_)
Itoa(n) ==
    IF n < 10 THEN <<Digits[n + 1]>>
    ELSE Itoa(n \div 10) \o <<Digits[(n % 10) + 1]>>

\* The string of a tag.
TagName(t) ==
    StrGo \o Itoa(t.maj) \o
        CASE t.kind = "bare"    -> <<>>
          [] t.kind = "release" -> <<".">> \o Itoa(t.min)
          [] t.kind = "beta"    -> <<".">> \o Itoa(t.min) \o StrBeta \o Itoa(t.n)
          [] t.kind = "rc"      -> <<".">> \o Itoa(t.min) \o StrRc \o Itoa(t.n)
          [] t.kind = "patch"   -> <<".">> \o Itoa(t.min) \o <<".">> \o Itoa(t.n)

\* go1.9.2rc2, a release candidate of a patch release.
PatchRcTag == <<"g", "o", "1", ".", "9", ".", "2", "r", "c", "2">>

\* The table of known versions is generated from every tag of the Go
\* repository except the weekly and release tags.
goversions == { TagName(t) : t \in Tags } \cup {PatchRcTag}

\* Strings that are not version tags.
OtherStrings ==
    { <<"x", "x", "1", ".", "9">>, <<"g", "o", "1", ".", "x">>,
      <<"g", "o", "x", ".", "9">>, <<"g">>, <<"x", "x", "1">>,
      <<"g", "o", "1", ".", "9", "b", "e", "t", "a">> }

CmpArgs == [a : goversions \cup OtherStrings, b : goversions \cup OtherStrings]

CmpPending == [out |-> "pending", val |-> 0]

InitCmp ==
    /\ arg \in CmpArgs
    /\ ret = CmpPending
    /\ img = <<>>
    /\ gf = <<>>
    /\ first = <<>>
    /\ last = <<>>
    /\ calls = 0
    /\ overridden = FALSE
    /\ closeRets = <<>>
    /\ pc = <<>>

CallGoVersionCompare ==
    /\ ret = CmpPending
    /\ ret' = GoVersionCompare(arg.a, arg.b)
    /\ UNCHANGED <<img, gf, first, last, calls, overridden, closeRets, pc, arg>>

NextCmp == CallGoVersionCompare

SpecCmp == InitCmp /\ [][NextCmp]_specVars

\* C15 (as claimed): on known tags the comparison returns, it is
\* antisymmetric, and tags that compare equal compare alike with every
\* third known tag.
C15_TotalOrderOnKnownTags ==
    (ret.out # "pending" /\ arg.a \in goversions /\ arg.b \in goversions) =>
        /\ ret.out = "ok"
        /\ GoVersionCompare(arg.b, arg.a).out = "ok"
        /\ ret.val = 0 - GoVersionCompare(arg.b, arg.a).val
        /\ ret.val = 0 =>
              \A c \in goversions :
                  GoVersionCompare(arg.a, c) = GoVersionCompare(arg.b, c)

\* The first component of a string, and the leading digits of its second.
MajorOf(s) == SubSeq(Split(s, ".")[1], 3, Len(Split(s, ".")[1]))
HasMinor(s) == Len(Split(s, ".")) >= 2
MinorStartsNumeric(s) ==
    Split(s, ".")[2] # <<>> /\ IsDigit(Split(s, ".")[2][1])

InvalidVersion(s) ==
    \/ Len(s) < 2
    \/ SubSeq(s, 1, 2) # StrGo
    \/ ~Atoi(MajorOf(s)).ok
    \/ HasMinor(s) /\ ~MinorStartsNumeric(s)

\* C16 (as claimed): a comparison of two different strings panics when
\* either of them does not start with "go" or has a major or minor
\* component that is not a number.
C16_InvalidInputPanics ==
    (ret.out # "pending" /\ arg.a # arg.b
        /\ (InvalidVersion(arg.a) \/ InvalidVersion(arg.b))) =>
        ret.out = "panic"

\* The order of the tags: major, then a bare major first, then minor, then
\* beta, rc, release, patch, then the number N.
KindRank(k) ==
    CASE k = "bare" -> 0 [] k = "beta" -> 1 [] k = "rc" -> 2
      [] k = "release" -> 3 [] k = "patch" -> 4

TagKey(t) == <<t.maj, t.min, KindRank(t.kind), t.n>>

RECURSIVE LexCompare(_, _)
LexCompare(x, y) ==
    IF x = <<>> THEN 0
    ELSE IF Head(x) < Head(y) THEN -1
    ELSE IF Head(x) > Head(y) THEN 1
    ELSE LexCompare(Tail(x), Tail(y))

\* C17: on two tags the comparison returns their order by major, minor,
\* then beta < rc < release < patch with N ascending, a bare major below
\* every tag of that major with a minor.
C17_OrdersByMajorMinorKind ==
    \A ta \in { t \in Tags : TagName(t) = arg.a } :
        \A tb \in { t \in Tags : TagName(t) = arg.b } :
            ret.out # "pending" =>
                ret = CmpRet(LexCompare(TagKey(ta), TagKey(tb)))

\* A beta has been compared with an rc of the same major.minor.
C17_Witness ==
    /\ ret = CmpRet(-1)
    /\ \E ta, tb \in Tags :
          /\ TagName(ta) = arg.a /\ TagName(tb) = arg.b
          /\ ta.maj = tb.maj /\ ta.min = tb.min
          /\ ta.kind = "beta" /\ tb.kind = "rc" /\ ta.n > tb.n

----------------------------------------------------------------------------
(***************************************************************************)
(* Part 9.  Discovery of the compiler version (file.go, goversion.go,      *)
(* stdpkg_gen.go) on version strings.                                      *)
(*                                                                         *)
(* A file is described by what each source of a version holds: the         *)
(* version string of the build info, the string the disassembly of         *)
(* runtime.schedinit leads to, the successive matches of the version       *)
(* pattern in the data the string scan reads, and the version in the       *)
(* DWARF producer attribute.                                               *)
(***************************************************************************)
\* Bound on the number of matches of the version pattern in the data.
MaxScan == 2

StrGo116 == <<"g", "o", "1", ".", "1", "6">>
StrGo192 == <<"g", "o", "1", ".", "9", ".", "2">>
StrGo1 == <<"g", "o", "1">>
StrGo199 == <<"g", "o", "1", ".", "9", "9">>
StrGo14beta1 == <<"g", "o", "1", ".", "4", "b", "e", "t", "a", "1">>
StrGo1Dot == <<"g", "o", "1", ".">>

\* Two known tags, a known tag older than go1.4beta1, an unknown tag.
VerStrings == {StrGo116, StrGo192, StrGo1, StrGo199}

ErrSectionDoesNotExist == "ErrSectionDoesNotExist"
ErrSectionData == "ErrSectionData"

\* A *GoVersion: nil, an entry of the table, or a descriptor with only Name.
NilVersion == [nil |-> TRUE, Name |-> <<>>, SHA |-> "", Timestamp |-> ""]
TableEntry(tag) == [nil |-> FALSE, Name |-> tag, SHA |-> "sha", Timestamp |-> "time"]
NameOnly(tag) == [nil |-> FALSE, Name |-> tag, SHA |-> "", Timestamp |-> ""]

ResolveTag(tag) == IF tag \in goversions THEN TableEntry(tag) ELSE NilVersion

HasPrefix(s, p) == Len(s) >= Len(p) /\ SubSeq(s, 1, Len(p)) = p

\* extractBuildInfo and Open: the compiler of the build info is the table's
\* entry for its version string, and Open keeps it when it is not nil.
openGoversion(a) ==
    IF a.bi.ok /\ ~ResolveTag(a.bi.gv).nil THEN ResolveTag(a.bi.gv)
    ELSE NilVersion

\* The end of tryFromSchedInit: a string starting with "go1." is resolved,
\* an unknown one becomes a descriptor with only Name.
schedInitVersion(a) ==
    IF ~HasPrefix(a.sched, StrGo1Dot) THEN NilVersion
    ELSE IF ~ResolveTag(a.sched).nil THEN ResolveTag(a.sched)
    ELSE NameOnly(a.sched)

\* The loop returning a nil version and a nil error once the matches run
\* out (the return after the loop, line 223).
RECURSIVE scanVersion_nilWhenExhausted(_)
scanVersion_nilWhenExhausted(matches) ==
    IF matches = <<>> THEN [ver |-> NilVersion, err |-> NIL]
    ELSE IF ResolveTag(Head(matches)).nil
            \/ GoVersionCompare(Head(matches), StrGo14beta1).val < 0
    THEN scanVersion_nilWhenExhausted(Tail(matches))
    ELSE [ver |-> ResolveTag(Head(matches)), err |-> NIL]

\* The loop of findGoCompilerVersion over the successive matches: a match
\* is skipped when the table does not know it or it is older than
\* go1.4beta1.  The match is a substring of the data, so bytes.Index finds
\* it and the loop is only left by a return.
RECURSIVE scanVersion(_)
scanVersion(matches) ==
    IF matches = <<>> THEN [ver |-> NilVersion, err |-> ErrNoGoVersionFound]
    ELSE IF ResolveTag(Head(matches)).nil
            \/ GoVersionCompare(Head(matches), StrGo14beta1).val < 0
    THEN scanVersion(Tail(matches))
    ELSE [ver |-> ResolveTag(Head(matches)), err |-> NIL]

\* getRData, and getCodeSection when there is no read-only data section.
scanData(a) ==
    IF a.rdata = "ok" THEN NIL
    ELSE IF a.rdata = "error" THEN ErrSectionData
    ELSE IF a.code = "ok" THEN NIL
    ELSE IF a.code = "error" THEN ErrSectionData
    ELSE ErrSectionDoesNotExist

\* findGoCompilerVersion with the string scan before the disassembly.
findVersion_scanFirst(a) ==
    IF scanData(a) = NIL /\ scanVersion(a.matches).err = NIL
    THEN scanVersion(a.matches)
    ELSE IF ~schedInitVersion(a).nil THEN [ver |-> schedInitVersion(a), err |-> NIL]
    ELSE IF scanData(a) # NIL THEN [ver |-> NilVersion, err |-> scanData(a)]
    ELSE scanVersion(a.matches)

findVersion(a) ==
    IF ~schedInitVersion(a).nil THEN [ver |-> schedInitVersion(a), err |-> NIL]
    ELSE IF scanData(a) # NIL THEN [ver |-> NilVersion, err |-> scanData(a)]
    ELSE scanVersion(a.matches)

\* Open followed by GetCompilerVersion.
discoverVersion(a) ==
    IF ~openGoversion(a).nil
    THEN [out |-> "done", ver |-> openGoversion(a), err |-> NIL]
    ELSE IF findVersion(a).err # NIL
    THEN [out |-> "done", ver |-> NilVersion, err |-> findVersion(a).err]
    ELSE [out |-> "done", ver |-> findVersion(a).ver, err |-> NIL]

RECURSIVE SeqsUpTo(_, _)
SeqsUpTo(S, n) ==
    IF n = 0 THEN {<<>>}
    ELSE SeqsUpTo(S, n - 1)
            \cup { <<x>> \o s : x \in S, s \in { t \in SeqsUpTo(S, n - 1) : Len(t) = n - 1 } }

VerArgs ==
    [bi      : {[ok |-> FALSE, gv |-> <<>>]} \cup [ok : {TRUE}, gv : VerStrings],
     sched   : {<<>>} \cup VerStrings,
     rdata   : {"ok", "missing", "error"},
     code    : {"ok", "missing", "error"},
     matches : SeqsUpTo(VerStrings, MaxScan),
     dwarf   : {<<>>, StrGo116}]

VerPending == [out |-> "pending", ver |-> NilVersion, err |-> NIL]

InitVer ==
    /\ arg \in VerArgs
    /\ ret = VerPending
    /\ img = <<>>
    /\ gf = <<>>
    /\ first = <<>>
    /\ last = <<>>
    /\ calls = 0
    /\ overridden = FALSE
    /\ closeRets = <<>>
    /\ pc = <<>>

CallGetCompilerVersion ==
    /\ ret = VerPending
    /\ ret' = discoverVersion(arg)
    /\ UNCHANGED <<img, gf, first, last, calls, overridden, closeRets, pc, arg>>

NextVer == CallGetCompilerVersion

SpecVer == InitVer /\ [][NextVer]_specVars

\* What each strategy yields on its own: a descriptor, or nil.
BuildInfoYield(a) == openGoversion(a)
SchedInitYield(a) == schedInitVersion(a)
ScanYield(a) == IF scanData(a) = NIL THEN scanVersion(a.matches).ver ELSE NilVersion
DwarfYield(a) == IF a.dwarf = <<>> THEN NilVersion ELSE ResolveTag(a.dwarf)

RECURSIVE FirstYield(_)
FirstYield(ys) ==
    IF ys = <<>> THEN NilVersion
    ELSE IF ~Head(ys).nil THEN Head(ys)
    ELSE FirstYield(Tail(ys))

NoStrategyYields(a) ==
    BuildInfoYield(a).nil /\ SchedInitYield(a).nil /\ ScanYield(a).nil

C13_UnknownYieldsNameOnly ==
    ret.out = "done" =>
        /\ (arg.bi.ok /\ arg.bi.gv \notin goversions) =>
              ret.ver = NameOnly(arg.bi.gv)
        /\ (~arg.bi.ok /\ HasPrefix(arg.sched, StrGo1Dot)
                /\ arg.sched \notin goversions) =>
              ret.ver = NameOnly(arg.sched)
        /\ (~arg.bi.ok /\ arg.sched = <<>> /\ scanData(arg) = NIL
                /\ arg.matches # <<>> /\ Head(arg.matches) \notin goversions) =>
              ret.ver = NameOnly(Head(arg.matches))

----------------------------------------------------------------------------
(***************************************************************************)
(* Part 10.  The build ID parsers on bytes (buildid.go).                   *)
(*                                                                         *)
(* arg is either an ELF note written in one byte order and read in         *)
(* another, or the raw data of a code section made of chunks: the start    *)
(* marker, the end marker, an end marker whose last byte is the first      *)
(* byte of a start marker, and other bytes.                                *)
(***************************************************************************)
\* Bound on the length of a build ID in an ELF note.
MaxIDLen == 3

\* Bound on the number of chunks of the raw data.
MaxChunks == 3

\* "Go\x00\x00"
goNoteNameELF == <<71, 111, 0, 0>>

\* "\xff Go build ID: \""
goNoteRawStart ==
    <<255, 32, 71, 111, 32, 98, 117, 105, 108, 100, 32, 73, 68, 58, 32, 34>>

\* "\"\n \xff"
goNoteRawEnd == <<34, 10, 32, 255>>

\* binary.Write of a uint32 below 256 in a byte order.
Encode32(n, order) ==
    IF order = "LE" THEN <<n, 0, 0, 0>> ELSE <<0, 0, 0, n>>

\* binary.Read of a uint32 in a byte order.
Decode32(b, order) ==
    IF order = "LE"
    THEN b[1] + 256 * b[2] + 65536 * b[3] + 16777216 * b[4]
    ELSE b[4] + 256 * b[3] + 65536 * b[2] + 16777216 * b[1]

IDResult(o, id) == [out |-> o, id |-> id]

\* parseBuildIDFromElf reading every integer as little endian.
parseBuildIDFromElfData_littleEndianOnly(data, order) ==
    IF Len(data) < 12 THEN IDResult("error", <<>>)
    ELSE IF Decode32(SubSeq(data, 9, 12), "LE") # 4 THEN IDResult("error", <<>>)
    ELSE IF 12 + Decode32(SubSeq(data, 1, 4), "LE") > Len(data)
    THEN IDResult("panic", <<>>)
    ELSE IF SubSeq(data, 13, 12 + Decode32(SubSeq(data, 1, 4), "LE")) # goNoteNameELF
    THEN IDResult("error", <<>>)
    ELSE IF 16 + Decode32(SubSeq(data, 5, 8), "LE") > Len(data)
    THEN IDResult("panic", <<>>)
    ELSE IDResult("ok", SubSeq(data, 17, 16 + Decode32(SubSeq(data, 5, 8), "LE")))

\* parseBuildIDFromElf: three integers, the name at 12, the ID at 16.
parseBuildIDFromElfData(data, order) ==
    IF Len(data) < 12 THEN IDResult("error", <<>>)
    ELSE IF Decode32(SubSeq(data, 9, 12), order) # 4 THEN IDResult("error", <<>>)
    ELSE IF 12 + Decode32(SubSeq(data, 1, 4), order) > Len(data)
    THEN IDResult("panic", <<>>)
    ELSE IF SubSeq(data, 13, 12 + Decode32(SubSeq(data, 1, 4), order)) # goNoteNameELF
    THEN IDResult("error", <<>>)
    ELSE IF 16 + Decode32(SubSeq(data, 5, 8), order) > Len(data)
    THEN IDResult("panic", <<>>)
    ELSE IDResult("ok", SubSeq(data, 17, 16 + Decode32(SubSeq(data, 5, 8), order)))

\* parseBuildIDFromRaw: both markers are searched from the start of the
\* data; the slice expression panics when the end lies before the ID.
parseBuildIDFromRawData(data) ==
    IF Index(data, goNoteRawStart) < 0 THEN IDResult("ok", <<>>)
    ELSE IF Index(data, goNoteRawEnd) < 0 THEN IDResult("error", <<>>)
    ELSE IF Index(data, goNoteRawStart) + Len(goNoteRawStart) > Index(data, goNoteRawEnd)
    THEN IDResult("panic", <<>>)
    ELSE IDResult("ok", SubSeq(data, Index(data, goNoteRawStart) + Len(goNoteRawStart) + 1,
                               Index(data, goNoteRawEnd)))

\* The note of the round-trip test: nameLen, idLen, tag, name, ID.
ElfNote(id, order) ==
    Encode32(4, order) \o Encode32(Len(id), order) \o Encode32(4, order)
        \o goNoteNameELF \o id

RECURSIVE Concat(_)
Concat(chunks) ==
    IF chunks = <<>> THEN <<>> ELSE Head(chunks) \o Concat(Tail(chunks))

IDBytes == {0, 65, 255}

RawChunks ==
    {goNoteRawStart, goNoteRawEnd, <<65>>,
     SubSeq(goNoteRawEnd, 1, 3) \o goNoteRawStart}

BuildIDArgs ==
    [form : {"elf"}, id : SeqsUpTo(IDBytes, MaxIDLen),
     data : {<<>>}, wOrder : {"LE", "BE"}, rOrder : {"LE", "BE"}]
    \cup
    { [form |-> "raw", id |-> <<>>, data |-> Concat(cs), wOrder |-> "LE", rOrder |-> "LE"] :
        cs \in SeqsUpTo(RawChunks, MaxChunks) }

BuildIDPending == [out |-> "pending", id |-> <<>>]

InitBuildID ==
    /\ arg \in BuildIDArgs
    /\ ret = BuildIDPending
    /\ img = <<>>
    /\ gf = <<>>
    /\ first = <<>>
    /\ last = <<>>
    /\ calls = 0
    /\ overridden = FALSE
    /\ closeRets = <<>>
    /\ pc = <<>>

CallParseBuildIDFromElf ==
    /\ ret = BuildIDPending
    /\ arg.form = "elf"
    /\ ret' = parseBuildIDFromElfData(ElfNote(arg.id, arg.wOrder), arg.rOrder)
    /\ UNCHANGED <<img, gf, first, last, calls, overridden, closeRets, pc, arg>>

CallParseBuildIDFromRaw ==
    /\ ret = BuildIDPending
    /\ arg.form = "raw"
    /\ ret' = parseBuildIDFromRawData(arg.data)
    /\ UNCHANGED <<img, gf, first, last, calls, overridden, closeRets, pc, arg>>

NextBuildID == CallParseBuildIDFromElf \/ CallParseBuildIDFromRaw

SpecBuildID == InitBuildID /\ [][NextBuildID]_specVars

\* The raw data has a start marker and no end marker behind the first one.
StartWithoutEndAfter(data) ==
    /\ Index(data, goNoteRawStart) >= 0
    /\ Index(SubSeq(data, Index(data, goNoteRawStart) + Len(goNoteRawStart) + 1,
                    Len(data)), goNoteRawEnd) < 0

\* C18 (as claimed): raw data with a start marker and no end marker after
\* it is reported as an error, whatever precedes the start marker.
C18_MissingEndIsError ==
    (ret.out # "pending" /\ arg.form = "raw" /\ StartWithoutEndAfter(arg.data)) =>
        ret.out = "error"

\* C19: the note (nameLen = 4, idLen = len(ID), tag = 4, "Go\0\0", ID)
\* written and read in one byte order parses to exactly ID, without error.
C19_ElfNoteRoundTrip ==
    (ret.out # "pending" /\ arg.form = "elf" /\ arg.wOrder = arg.rOrder) =>
        ret = IDResult("ok", arg.id)

\* A big-endian note with an ID of the greatest length, holding the bytes
\* 0 and 255, has been parsed.
C19_Witness ==
    /\ ret.out = "ok" /\ arg.form = "elf"
    /\ arg.wOrder = "BE" /\ arg.rOrder = "BE"
    /\ Len(arg.id) = MaxIDLen
    /\ ret.id = arg.id /\ ret.id[1] = 0 /\ ret.id[MaxIDLen] = 255

----------------------------------------------------------------------------
(***************************************************************************)
(* Part 11.  The scan of the moduledata section for the PCLNTAB address,   *)
(* round by round (unnamed/part_004 and unnamed/part_005).                 *)
(*                                                                         *)
(* The section is a sequence of positions: "x" is a position where the     *)
(* address does not occur, "v" one where it occurs and the record read     *)
(* there passes the validation, "i" one where it occurs and the record     *)
(* fails it, "w" (Part 18) one where it does not occur but where a record  *)
(* read there would pass the validation.  pc holds the data still to       *)
(* search, the offset of that data in the section, the offsets of the      *)
(* decode attempts made so far, and the outcome.                           *)
(***************************************************************************)
\* Bound on the length of the moduledata section.
MaxSecLen == 4

\* The size of a record, in positions.
VmdSize == 2

Slots == {"x", "v", "i"}

\* The positions where the address occurs, and those where the record read
\* passes the validation.
AddressSlots == {"v", "i"}
ValidSlots == {"v", "w"}

ScanArgs == [impl : {"part_004", "part_005"}, sec : SeqsUpTo(Slots, MaxSecLen)]

\* bytes.Index(data, magic): the first position where the address occurs.
IndexOfMagic(data) ==
    IF \E i \in 1..Len(data) : data[i] \in AddressSlots
    THEN (CHOOSE i \in 1..Len(data) :
            data[i] \in AddressSlots /\ \A j \in 1..(i - 1) : data[j] \notin AddressSlots) - 1
    ELSE -1

\* unnamed/part_004, labels search, load and invalidMD: one round.
scanRound004(st, off) ==
    IF off = -1 THEN [st EXCEPT !.out = "error"]
    ELSE IF Len(st.data) < off + VmdSize THEN [st EXCEPT !.out = "error"]
    ELSE IF st.data[off + 1] \in ValidSlots
    THEN [st EXCEPT !.out = "ok", !.hits = Append(@, st.base + off)]
    ELSE [st EXCEPT !.data = SubSeq(st.data, off + 2, Len(st.data)),
                    !.base = st.base + off + 1,
                    !.hits = Append(@, st.base + off)]

\* unnamed/part_005, one round of the loop of searchModuledata with the
\* layout known: trySearch has looked for the address in secData (off is
\* an offset in the whole section), tryLoad reads the record there, and a
\* record that fails the validation makes the loop drop current[:off+1].
scanRound005(st, sec, off) ==
    IF off = -1 THEN [st EXCEPT !.out = "error"]
    ELSE IF Len(sec) < off + VmdSize THEN [st EXCEPT !.out = "error"]
    ELSE IF sec[off + 1] \in ValidSlots
    THEN [st EXCEPT !.out = "ok", !.hits = Append(@, off)]
    ELSE IF off + 1 > Len(st.data)
    THEN [st EXCEPT !.out = "panic", !.hits = Append(@, off)]
    ELSE [st EXCEPT !.data = SubSeq(st.data, off + 2, Len(st.data)),
                    !.base = st.base + off + 1,
                    !.hits = Append(@, off)]

InitScan ==
    /\ arg \in ScanArgs
    /\ pc = [data |-> arg.sec, base |-> 0, hits |-> <<>>, out |-> "pending"]
    /\ ret = <<>>
    /\ img = <<>>
    /\ gf = <<>>
    /\ first = <<>>
    /\ last = <<>>
    /\ calls = 0
    /\ overridden = FALSE
    /\ closeRets = <<>>

\* unnamed/part_004:335-381.
ScanRound004 ==
    /\ arg.impl = "part_004"
    /\ pc.out = "pending"
    /\ pc' = scanRound004(pc, IndexOfMagic(pc.data))
    /\ UNCHANGED <<img, gf, first, last, calls, overridden, closeRets, arg, ret>>

\* unnamed/part_005:314-385: the search is made in secData, whatever
\* current is.
ScanRound005 ==
    /\ arg.impl = "part_005"
    /\ pc.out = "pending"
    /\ pc' = scanRound005(pc, arg.sec, IndexOfMagic(arg.sec))
    /\ UNCHANGED <<img, gf, first, last, calls, overridden, closeRets, arg, ret>>

NextScan == ScanRound004 \/ ScanRound005

SpecScan == InitScan /\ [][NextScan]_specVars

\* C20 (as claimed): every decode attempt is made at an occurrence of the
\* address, each attempt strictly after the one that failed before it, and
\* the scan ends with a validated record or with an error.
C20_ScanAdvancesAndEnds ==
    /\ \A i \in 1..Len(pc.hits) : arg.sec[pc.hits[i] + 1] # "x"
    /\ \A i \in 1..(Len(pc.hits) - 1) : pc.hits[i] < pc.hits[i + 1]
    /\ pc.out \in {"pending", "ok", "error"}
    /\ pc.out = "ok" => arg.sec[pc.hits[Len(pc.hits)] + 1] = "v"

----------------------------------------------------------------------------
(***************************************************************************)
(* Part 12.  findRuntimeText (file.go): runtime.text from the moduledata   *)
(* section when the file has no symbol for it.                             *)
(*                                                                         *)
(* arg holds the code section's address range and the successive           *)
(* occurrences of the PCLNTAB address in the moduledata section.  Each     *)
(* occurrence has the words read at index 22/23 and at index 12/13 from    *)
(* it, and room: "full" when at least 30 words of the section are left     *)
(* from the occurrence on, "short" when fewer are (the words are still     *)
(* there).  An occurrence behind a short one is short as well.             *)
(***************************************************************************)
\* Bound on the number of occurrences of the address in the section.
MaxOccs == 2

TextRanges == { [start |-> 4, end |-> 8] }

\* Pairs (text, etext): inside the code section, and outside it at each end.
WordPairs == { <<4, 8>>, <<5, 6>>, <<8, 8>>, <<4, 4>>, <<3, 8>> }

Occurrences == [room : {"full", "short"}, f22 : WordPairs, f12 : WordPairs]

OccurrenceLists ==
    { os \in SeqsUpTo(Occurrences, MaxOccs) :
        \A k \in 1..(Len(os) - 1) : os[k].room = "short" => os[k + 1].room = "short" }

TextResult(o, t) == [out |-> o, text |-> t]

\* file.go:541, 554  the test on text and etext.
textInCode(p, code) ==
    p[1] >= code.start /\ p[1] < code.end /\ p[2] > code.start /\ p[2] <= code.end

\* findRuntimeText trying the words 12/13 before the words 22/23.
RECURSIVE findRuntimeText_oldLayoutFirst(_, _, _)
findRuntimeText_oldLayoutFirst(occs, code, k) ==
    IF k > Len(occs) THEN TextResult("error", 0)
    ELSE IF occs[k].room # "full" THEN TextResult("error", 0)
    ELSE IF textInCode(occs[k].f12, code) THEN TextResult("ok", occs[k].f12[1])
    ELSE IF textInCode(occs[k].f22, code) THEN TextResult("ok", occs[k].f22[1])
    ELSE findRuntimeText_oldLayoutFirst(occs, code, k + 1)

\* file.go:521-561  findRuntimeText, from the k-th occurrence: bytes.Index
\* finds the next occurrence in the data left; the loop ends with an error
\* when there is none or fewer than 30 words are left from it.
RECURSIVE findRuntimeText(_, _, _)
findRuntimeText(occs, code, k) ==
    IF k > Len(occs) THEN TextResult("error", 0)
    ELSE IF occs[k].room # "full" THEN TextResult("error", 0)
    ELSE IF textInCode(occs[k].f22, code) THEN TextResult("ok", occs[k].f22[1])
    ELSE IF textInCode(occs[k].f12, code) THEN TextResult("ok", occs[k].f12[1])
    ELSE findRuntimeText(occs, code, k + 1)

TextPending == [out |-> "pending", text |-> 0]

InitText ==
    /\ arg \in [code : TextRanges, occs : OccurrenceLists]
    /\ ret = TextPending
    /\ img = <<>>
    /\ gf = <<>>
    /\ first = <<>>
    /\ last = <<>>
    /\ calls = 0
    /\ overridden = FALSE
    /\ closeRets = <<>>
    /\ pc = <<>>

CallFindRuntimeText ==
    /\ ret = TextPending
    /\ ret' = findRuntimeText(arg.occs, arg.code, 1)
    /\ UNCHANGED <<img, gf, first, last, calls, overridden, closeRets, pc, arg>>

NextText == CallFindRuntimeText

SpecText == InitText /\ [][NextText]_specVars

\* text_start in [codeStart, codeEnd) and text_end in (codeStart, codeEnd].
PairQualifies(p, code) ==
    /\ code.start <= p[1] /\ p[1] < code.end
    /\ code.start < p[2] /\ p[2] <= code.end

Qualifies(o, code) == PairQualifies(o.f22, code) \/ PairQualifies(o.f12, code)

\* The text of a qualifying occurrence: the words 22/23, or else 12/13.
TextOf(o, code) == IF PairQualifies(o.f22, code) THEN o.f22[1] ELSE o.f12[1]

\* What the scan is to return when the occurrences ks are the ones that
\* count: the text of the first that qualifies, or an error.
FirstQualifying(ks) ==
    IF \E k \in ks : Qualifies(arg.occs[k], arg.code)
    THEN TextResult("ok",
            TextOf(arg.occs[CHOOSE k \in ks :
                      /\ Qualifies(arg.occs[k], arg.code)
                      /\ \A j \in ks : Qualifies(arg.occs[j], arg.code) => k <= j],
                   arg.code))
    ELSE TextResult("error", 0)

\* C24 (as claimed): the scan returns the text of the first occurrence that
\* qualifies at 22/23 or else 12/13, and an error when none qualifies.
C24_FirstQualifyingOccurrence ==
    ret.out # "pending" => ret = FirstQualifying(1..Len(arg.occs))

\* C24 (amended): the same among the occurrences from which at least 30
\* words of the section are left.
C24_FirstQualifyingWithRoom ==
    ret.out # "pending" =>
        ret = FirstQualifying({ k \in 1..Len(arg.occs) : arg.occs[k].room = "full" })

\* The first occurrence was rejected and the second accepted by its words
\* 12/13.
C24_Witness ==
    /\ ret.out = "ok"
    /\ Len(arg.occs) = 2
    /\ ~Qualifies(arg.occs[1], arg.code)
    /\ ~PairQualifies(arg.occs[2].f22, arg.code)
    /\ ret.text = arg.occs[2].f12[1]

----------------------------------------------------------------------------
(***************************************************************************)
(* Part 13.  extractStringFromPtr (stdpkg_gen.go): the string behind a     *)
(* build info pointer.                                                     *)
(*                                                                         *)
(* A word is the sequence of its bytes as they lie in the file, 4 of them  *)
(* in a 32-bit file and 8 in a 64-bit file.  A decoded uint64 is the       *)
(* sequence of its 8 bytes, least significant first.  The file has one     *)
(* section with bytes on disk, StrSection.                                 *)
(***************************************************************************)
\* Bound on the string lengths read from a string header.
MaxStrLen == 5

\* The section with bytes on disk: its address and its data.
StrSection == [addr |-> 16, data |-> <<"g", "o", "1", "x">>]

ErrLengthOutOfBounds == "length out of bounds"

ErrReadingStringBytes == "error when reading string bytes"

Reverse(s) == [ i \in 1..Len(s) |-> s[Len(s) + 1 - i] ]

\* The word of size w whose bytes are all b.
Fill(w, b) == [ i \in 1..w |-> b ]

\* The word of size w and byte order order for a number below 256.
SmallWord(w, order, n) ==
    IF order = "little" THEN <<n>> \o Fill(w - 1, 0) ELSE Fill(w - 1, 0) \o <<n>>

\* moduledata.go:95-104  readUIntTo64: the word is decoded in the file's
\* byte order; a 32-bit word is widened to 64 bits with zeros.
readUIntTo64(word, order, is32) ==
    (IF order = "little" THEN word ELSE Reverse(word))
        \o (IF is32 THEN Fill(4, 0) ELSE <<>>)

\* The number of a uint64 that is below 256; larger ones are beyond every
\* address and length of the file.
IsSmall(u) == \A i \in 2..8 : u[i] = 0

\* file.go:582-593  GoFile.Bytes with getSectionDataFromAddress
\* (elf.go:237-250): the bytes of the section that holds the address.
fBytes(address, length) ==
    IF ~(IsSmall(address) /\ StrSection.addr <= address[1] /\ address[1] < StrSection.addr + Len(StrSection.data))
    THEN [val |-> <<>>, err |-> ErrSectionDoesNotExist]
    ELSE IF ~IsSmall(length) \/ address[1] + length[1] - StrSection.addr > Len(StrSection.data)
    THEN [val |-> <<>>, err |-> ErrLengthOutOfBounds]
    ELSE [val |-> SubSeq(StrSection.data, address[1] - StrSection.addr + 1,
                         address[1] + length[1] - StrSection.addr),
          err |-> NIL]

\* stdpkg_gen.go:520-560  extractStringFromPtr.  hdr is what
\* f.Bytes(offset, 0x20) returned: an error, or the buffer whose first two
\* words are the data pointer and the length.
extractStringFromPtr(is32, order, hdr) ==
    IF hdr.err # NIL
    THEN IF hdr.err = ErrSectionDoesNotExist
         THEN [val |-> <<>>, err |-> NIL]
         ELSE [val |-> <<>>, err |-> hdr.err]
    ELSE \* d == uint64(0) || int64(d) == int64(-1)
         IF \/ readUIntTo64(hdr.d, order, is32) = Fill(8, 0)
            \/ readUIntTo64(hdr.d, order, is32) = Fill(8, 255)
         THEN [val |-> <<>>, err |-> NIL]
         ELSE IF fBytes(readUIntTo64(hdr.d, order, is32),
                       readUIntTo64(hdr.l, order, is32)).err # NIL
         THEN [val |-> <<>>, err |-> ErrReadingStringBytes]
         ELSE fBytes(readUIntTo64(hdr.d, order, is32),
                    readUIntTo64(hdr.l, order, is32))

\* The data pointers of a file of word size w: null, all ones, the 32 low
\* bits set, an address inside the section and one outside.
PtrWords(w, order) ==
    { Fill(w, 0), Fill(w, 255), SmallWord(w, order, StrSection.addr),
      SmallWord(w, order, StrSection.addr + 1), SmallWord(w, order, 99) }
        \cup (IF w = 8 THEN { IF order = "little" THEN Fill(4, 255) \o Fill(4, 0)
                                                   ELSE Fill(4, 0) \o Fill(4, 255) }
                       ELSE {})

StrArgs ==
    UNION { UNION {
        { [is32 |-> (w = 4), order |-> o, hdr |-> [err |-> e, d |-> <<>>, l |-> <<>>]]
            : e \in {ErrSectionDoesNotExist, ErrLengthOutOfBounds} }
        \cup
        { [is32 |-> (w = 4), order |-> o, hdr |-> [err |-> NIL, d |-> d, l |-> SmallWord(w, o, n)]]
            : d \in PtrWords(w, o), n \in 0..MaxStrLen }
      : o \in {"little", "big"} } : w \in {4, 8} }

StrPending == [val |-> <<>>, err |-> "pending"]

InitStr ==
    /\ arg \in StrArgs
    /\ ret = StrPending
    /\ img = <<>>
    /\ gf = <<>>
    /\ first = <<>>
    /\ last = <<>>
    /\ calls = 0
    /\ overridden = FALSE
    /\ closeRets = <<>>
    /\ pc = <<>>

CallExtractStringFromPtr ==
    /\ ret = StrPending
    /\ ret' = extractStringFromPtr(arg.is32, arg.order, arg.hdr)
    /\ UNCHANGED <<img, gf, first, last, calls, overridden, closeRets, pc, arg>>

NextStr == CallExtractStringFromPtr

SpecStr == InitStr /\ [][NextStr]_specVars

\* C25: a string whose data pointer is 0 or has every bit of the file's
\* word set (0xffffffff on 32-bit, 0xffffffffffffffff on 64-bit) is the
\* empty string, with no error.
C25_NullOrAllOnesIsEmpty ==
    (/\ ret # StrPending
     /\ arg.hdr.err = NIL
     /\ arg.hdr.d \in { Fill(Len(arg.hdr.d), 0), Fill(Len(arg.hdr.d), 255) })
        => ret = [val |-> <<>>, err |-> NIL]

----------------------------------------------------------------------------
(***************************************************************************)
(* Part 14.  The do-once latches of one file object (file.go, elf.go)      *)
(* under concurrent callers.                                               *)
(*                                                                         *)
(* sync.Once.Do takes the latch's mutex, runs the body when the latch has  *)
(* not run yet and releases the mutex when the body has returned: a caller *)
(* of a latch whose body is running waits, the goroutine that runs the     *)
(* body included.  pc maps a goroutine to its call stack, a sequence of    *)
(* frames [unit, todo] where todo is what the unit has yet to call; gf     *)
(* holds the latches and whether FileInfo.goversion is set.  arg says of   *)
(* the file: sched, the architecture is one tryFromSchedInit supports;     *)
(* found, a compiler version is found; sym, the symbol table has           *)
(* runtime.firstmoduledata.                                                *)
(***************************************************************************)
LatchGoroutines == {"g1", "g2", "g3"}

Latches == {"initModuleDataOnce", "initPackagesOnce", "pclntabOnce", "symtab"}

LatchAccessors == {"Moduledata", "GetCompilerVersion", "GetSTDLib", "PCLNTab"}

\* The calls of a unit when the package enumeration asks for the compiler
\* version.
Callees_enumNeedsVersion(u, goversion) ==
    CASE u = "Moduledata"            -> <<"initModuleDataOnce">>
      [] u = "GetCompilerVersion"    -> <<"ensureCompilerVersion">>
      [] u = "GetSTDLib"             -> <<"initPackagesOnce">>
      [] u = "PCLNTab"               -> <<"pclntabOnce">>
      [] u = "initModuleDataOnce"    ->
            <<"ensureCompilerVersion">>
                \o (IF ~arg.found THEN <<>>
                    ELSE IF arg.sym THEN <<"symtab">>
                    ELSE <<"symtab", "pclntabOnce">>)
      [] u = "ensureCompilerVersion" ->
            IF ~goversion /\ arg.sched THEN <<"initPackagesOnce">> ELSE <<>>
      [] u = "initPackagesOnce"      -> <<"pclntabOnce", "ensureCompilerVersion">>
      [] u = "pclntabOnce"           -> <<"symtab">>
      [] OTHER                       -> <<>>

\* What a unit calls, in order:
\*   file.go:163-169, 202-208, 272-277, 474-480  the accessors;
\*   file.go:150-160  the body of initModuleDataOnce.Do, with
\*     extractModuledata (unnamed/part_004:313-327): getSymbol, and
\*     initPclntab when the symbol is missing;
\*   file.go:210-229, goversion.go:186-190, 230-246  ensureCompilerVersion
\*     down to GetSTDLib in tryFromSchedInit;
\*   file.go:171-182  the body of initPackagesOnce.Do: PCLNTab, enumPackages;
\*   file.go:411-471, 388-396  the body of pclntabOnce.Do: getSymbol;
\*   elf.go:106-110  getSymbol: the symbol table's latch.
Callees(u, goversion) ==
    CASE u = "Moduledata"            -> <<"initModuleDataOnce">>
      [] u = "GetCompilerVersion"    -> <<"ensureCompilerVersion">>
      [] u = "GetSTDLib"             -> <<"initPackagesOnce">>
      [] u = "PCLNTab"               -> <<"pclntabOnce">>
      [] u = "initModuleDataOnce"    ->
            <<"ensureCompilerVersion">>
                \o (IF ~arg.found THEN <<>>
                    ELSE IF arg.sym THEN <<"symtab">>
                    ELSE <<"symtab", "pclntabOnce">>)
      [] u = "ensureCompilerVersion" ->
            IF ~goversion /\ arg.sched THEN <<"initPackagesOnce">> ELSE <<>>
      [] u = "initPackagesOnce"      -> <<"pclntabOnce">>
      [] u = "pclntabOnce"           -> <<"symtab">>
      [] OTHER                       -> <<>>

Frame(u, goversion) == [unit |-> u, todo |-> Callees(u, goversion)]

InitLatch ==
    /\ arg \in [sched : BOOLEAN, found : BOOLEAN, sym : BOOLEAN]
    /\ gf = [latch |-> [l \in Latches |-> "new"],
             owner |-> [l \in Latches |-> NIL],
             goversion |-> FALSE]
    /\ pc = [g \in LatchGoroutines |-> <<>>]
    /\ img = <<>>
    /\ first = <<>>
    /\ last = <<>>
    /\ calls = 0
    /\ overridden = FALSE
    /\ closeRets = <<>>
    /\ ret = <<>>

LatchUnchanged == UNCHANGED <<img, first, last, calls, overridden, closeRets, arg, ret>>

Top(g) == pc[g][Len(pc[g])]

\* The unit the goroutine is about to call, or NIL.
NextCallee(g) ==
    IF pc[g] # <<>> /\ Top(g).todo # <<>> THEN Head(Top(g).todo) ELSE NIL

\* The stack with the next callee taken off its top frame's list.
Called(g) == [pc[g] EXCEPT ![Len(pc[g])].todo = Tail(@)]

\* The goroutine stands in Do of a latch whose body is running.
Blocked(g) == NextCallee(g) \in Latches /\ gf.latch[NextCallee(g)] = "running"

\* A goroutine calls an accessor.
LatchBegin(g, a) ==
    /\ pc[g] = <<>>
    /\ pc' = [pc EXCEPT ![g] = <<Frame(a, gf.goversion)>>]
    /\ UNCHANGED gf
    /\ LatchUnchanged

\* The goroutine makes its next call.  Do of a latch that has run returns at
\* once; Do of a latch that has not run starts its body; Do of a latch whose
\* body is running waits.
LatchCall(g) ==
    /\ NextCallee(g) # NIL
    /\ ~Blocked(g)
    /\ IF NextCallee(g) \in Latches /\ gf.latch[NextCallee(g)] = "done"
       THEN /\ pc' = [pc EXCEPT ![g] = Called(g)]
            /\ UNCHANGED gf
       ELSE /\ pc' = [pc EXCEPT ![g] = Append(Called(g), Frame(NextCallee(g), gf.goversion))]
            /\ gf' = IF NextCallee(g) \in Latches
                     THEN [gf EXCEPT !.latch[NextCallee(g)] = "running",
                                     !.owner[NextCallee(g)] = g]
                     ELSE gf
    /\ LatchUnchanged

\* The unit on top of the stack returns: a latch body marks the latch as run
\* and lets the waiting callers go on; tryExtractCompilerVersion
\* (file.go:223-228) stores a version it found.
LatchReturn(g) ==
    /\ pc[g] # <<>>
    /\ Top(g).todo = <<>>
    /\ pc' = [pc EXCEPT ![g] = SubSeq(pc[g], 1, Len(pc[g]) - 1)]
    /\ gf' = IF Top(g).unit \in Latches
             THEN [gf EXCEPT !.latch[Top(g).unit] = "done", !.owner[Top(g).unit] = NIL]
             ELSE IF Top(g).unit = "ensureCompilerVersion" /\ arg.found
             THEN [gf EXCEPT !.goversion = TRUE]
             ELSE gf
    /\ LatchUnchanged

NextLatch ==
    \E g \in LatchGoroutines :
        \/ \E a \in LatchAccessors : LatchBegin(g, a)
        \/ LatchCall(g)
        \/ LatchReturn(g)

SpecLatch == InitLatch /\ [][NextLatch]_specVars

\* The goroutines that wait, directly or through others, for goroutine g.
RECURSIVE WaitingOn(_, _)
WaitingOn(S, n) ==
    IF n = 0 THEN S
    ELSE WaitingOn(S \cup { h \in LatchGoroutines :
                              Blocked(h) /\ gf.owner[NextCallee(h)] \in S }, n - 1)

\* C26: no goroutine calls Do of a latch whose body it is running, and no
\* goroutines wait for each other in a circle: every goroutine inside a call
\* can take its next step, or waits for one that is not waiting for it.
C26_NoReentryNoDeadlock ==
    \A g \in LatchGoroutines :
        Blocked(g) =>
            /\ gf.owner[NextCallee(g)] # g
            /\ gf.owner[NextCallee(g)] \notin
                  WaitingOn({ h \in LatchGoroutines :
                                Blocked(h) /\ gf.owner[NextCallee(h)] = g },
                            Cardinality(LatchGoroutines))

\* One goroutine is inside all four latch bodies at once, entered through
\* Moduledata, and another waits for one of them.
C26_Witness ==
    \E g, h \in LatchGoroutines :
        /\ \A l \in Latches : gf.latch[l] = "running" /\ gf.owner[l] = g
        /\ pc[g][1].unit = "Moduledata"
        /\ Blocked(h)

\* Every call of an accessor returns (under SpecLatchFair).
C26_EveryCallReturns ==
    \A g \in LatchGoroutines : (pc[g] # <<>>) ~> (pc[g] = <<>>)

SpecLatchFair ==
    SpecLatch /\ \A g \in LatchGoroutines : WF_specVars(LatchCall(g) \/ LatchReturn(g))

----------------------------------------------------------------------------
(***************************************************************************)
(* Part 15.  SourceInfo (file.go) among the accessors of Part 1.  ret is   *)
(* the outcome of the last call of SourceInfo: out is "ok" or "panic" (a   *)
(* nil pointer dereference), and fresh tells whether the call came before  *)
(* the body of initPackagesOnce.Do had run.                                *)
(***************************************************************************)
SrcPending == [out |-> "pending", fresh |-> FALSE]

\* file.go:233-237  SourceInfo: f.pclntab.PCToLine and findSourceLines read
\* the table behind f.pclntab, which is nil until initPackages has stored
\* one (file.go:178).
SourceInfo(s) ==
    [out |-> IF s.pclntab = NIL THEN "panic" ELSE "ok", fresh |-> ~s.initPackagesOnce]

InitSrc ==
    /\ img \in Images
    /\ gf = NewGoFile(img)
    /\ first = [a \in Accessors |-> Uncalled]
    /\ last = [a \in Accessors |-> Uncalled]
    /\ calls = 0
    /\ overridden = FALSE
    /\ closeRets = <<>>
    /\ pc = <<>>
    /\ arg = <<>>
    /\ ret = SrcPending

CallSourceInfo ==
    /\ calls < MaxCalls
    /\ ~gf.osFileClosed
    /\ ret' = SourceInfo(gf)
    /\ calls' = calls + 1
    /\ UNCHANGED <<img, gf, first, last, overridden, closeRets, pc, arg>>

NextSrc ==
    \/ \E a \in Accessors : CallAccessor(a)
    \/ CallSourceInfo

SpecSrc == InitSrc /\ [][NextSrc]_specVars

\* C27: SourceInfo called on an opened file before any package accessor has
\* run returns its result; it does not go through a line table that was
\* never set.
C27_SourceInfoBeforePackages ==
    ret.fresh => ret.out = "ok"

----------------------------------------------------------------------------
(***************************************************************************)
(* Part 16.  enumPackages with a worker pool (unnamed/part_010:221-384).   *)
(*                                                                         *)
(* arg is the line table's list of functions, each with its package and    *)
(* whether it has a receiver; a function is named by its index.  The three *)
(* channels are unbuffered: a send and its receive are one step.  pc holds *)
(* the position of the main routine, the result routine and the workers,   *)
(* gf the data they share, ret what the main routine saw of packages when  *)
(* it took the lock.                                                       *)
(***************************************************************************)
\* Bound on the number of functions in the line table.
MaxFuncs == 3

\* The number of workers in the model (part_010:288 starts 10).
NumWorkers == 2

Workers == 1..NumWorkers

PoolFuncs == [pkg : {"main", "p"}, method : BOOLEAN]

NoPackage == [present |-> FALSE, Methods |-> <<>>, Functions |-> <<>>]

\* part_010:342-358  what the main routine does after the last send: close,
\* wg.Wait, done, pkgMutex.Lock, then the classification.  Here without
\* the wait.
mainNext_noWait(at) ==
    CASE at = "close"  -> "cancel"
      [] at = "wait"   -> "cancel"
      [] at = "cancel" -> "lock"
      [] OTHER         -> "classify"

\* part_010:342-358  what the main routine does after the last send: close,
\* wg.Wait, done, pkgMutex.Lock, then the classification.
mainNext(at) ==
    CASE at = "close"  -> "wait"
      [] at = "wait"   -> "cancel"
      [] at = "cancel" -> "lock"
      [] OTHER         -> "classify"

InitPool ==
    /\ arg \in SeqsUpTo(PoolFuncs, MaxFuncs)
    /\ pc = [main |-> [at |-> IF arg = <<>> THEN "close" ELSE "send", k |-> 1],
             coll |-> [at |-> "start", n |-> 0],
             w    |-> [i \in Workers |-> [at |-> "recv", n |-> 0]]]
    /\ gf = [closed |-> FALSE, cancelled |-> FALSE, wg |-> NumWorkers, mutex |-> NIL,
             packages |-> [p \in {"main", "p"} |-> NoPackage]]
    /\ ret = <<>>
    /\ img = <<>>
    /\ first = <<>>
    /\ last = <<>>
    /\ calls = 0
    /\ overridden = FALSE
    /\ closeRets = <<>>

PoolUnchanged == UNCHANGED <<img, first, last, calls, overridden, closeRets, arg>>

\* part_010:337-339 with 250-252  work <- n meets a worker's range w; the
\* worker computes the function's source lines and stands at its send.
MainSend(i) ==
    /\ pc.main.at = "send"
    /\ pc.w[i].at = "recv"
    /\ pc' = [pc EXCEPT !.w[i] = [at |-> "send", n |-> pc.main.k],
                        !.main = [at |-> IF pc.main.k = Len(arg) THEN "close" ELSE "send",
                                  k  |-> pc.main.k + 1]]
    /\ UNCHANGED <<gf, ret>>
    /\ PoolUnchanged

\* part_010:342  close(work)
MainClose ==
    /\ pc.main.at = "close"
    /\ gf' = [gf EXCEPT !.closed = TRUE]
    /\ pc' = [pc EXCEPT !.main.at = mainNext("close")]
    /\ UNCHANGED ret
    /\ PoolUnchanged

\* part_010:248, 250  the range over the closed channel ends: wg.Done.
WorkerExit(i) ==
    /\ pc.w[i].at = "recv"
    /\ gf.closed
    /\ pc' = [pc EXCEPT !.w[i].at = "done"]
    /\ gf' = [gf EXCEPT !.wg = @ - 1]
    /\ UNCHANGED ret
    /\ PoolUnchanged

\* part_010:345  wg.Wait()
MainWait ==
    /\ pc.main.at = "wait"
    /\ gf.wg = 0
    /\ pc' = [pc EXCEPT !.main.at = mainNext("wait")]
    /\ UNCHANGED <<gf, ret>>
    /\ PoolUnchanged

\* part_010:348  done()
MainCancel ==
    /\ pc.main.at = "cancel"
    /\ gf' = [gf EXCEPT !.cancelled = TRUE]
    /\ pc' = [pc EXCEPT !.main.at = mainNext("cancel")]
    /\ UNCHANGED ret
    /\ PoolUnchanged

\* part_010:351  pkgMutex.Lock(): the classification starts on the packages
\* as they are.
MainLock ==
    /\ pc.main.at = "lock"
    /\ gf.mutex = NIL
    /\ gf' = [gf EXCEPT !.mutex = "main"]
    /\ pc' = [pc EXCEPT !.main.at = mainNext("lock")]
    /\ ret' = gf.packages
    /\ PoolUnchanged

\* part_010:352, 383  the deferred Unlock when enumPackages returns.
MainReturn ==
    /\ pc.main.at = "classify"
    /\ gf' = [gf EXCEPT !.mutex = NIL]
    /\ pc' = [pc EXCEPT !.main.at = "returned"]
    /\ UNCHANGED ret
    /\ PoolUnchanged

\* part_010:301  the result routine takes the lock.
CollectorLock ==
    /\ pc.coll.at = "start"
    /\ gf.mutex = NIL
    /\ gf' = [gf EXCEPT !.mutex = "collector"]
    /\ pc' = [pc EXCEPT !.coll.at = "select"]
    /\ UNCHANGED ret
    /\ PoolUnchanged

\* part_010:309, 321 with 270, 282  the select receives what a worker sends
\* on methodResultChan or functionResultChan.
CollectorReceive(i) ==
    /\ pc.coll.at = "select"
    /\ pc.w[i].at = "send"
    /\ pc' = [pc EXCEPT !.coll = [at |-> "got", n |-> pc.w[i].n],
                        !.w[i] = [at |-> "recv", n |-> 0]]
    /\ UNCHANGED <<gf, ret>>
    /\ PoolUnchanged

\* part_010:310-319, 322-331  the payload is put into its package.
CollectorRecord ==
    /\ pc.coll.at = "got"
    /\ gf' = IF arg[pc.coll.n].method
             THEN [gf EXCEPT !.packages[arg[pc.coll.n].pkg].present = TRUE,
                             !.packages[arg[pc.coll.n].pkg].Methods = Append(@, pc.coll.n)]
             ELSE [gf EXCEPT !.packages[arg[pc.coll.n].pkg].present = TRUE,
                             !.packages[arg[pc.coll.n].pkg].Functions = Append(@, pc.coll.n)]
    /\ pc' = [pc EXCEPT !.coll = [at |-> "select", n |-> 0]]
    /\ UNCHANGED ret
    /\ PoolUnchanged

\* part_010:306-307, 302  case <-ctx.Done(): return, with the deferred Unlock.
CollectorDone ==
    /\ pc.coll.at = "select"
    /\ gf.cancelled
    /\ gf' = [gf EXCEPT !.mutex = NIL]
    /\ pc' = [pc EXCEPT !.coll.at = "exit"]
    /\ UNCHANGED ret
    /\ PoolUnchanged

NextPool ==
    \/ \E i \in Workers : MainSend(i)
    \/ MainClose
    \/ \E i \in Workers : WorkerExit(i)
    \/ MainWait
    \/ MainCancel
    \/ MainLock
    \/ MainReturn
    \/ CollectorLock
    \/ \E i \in Workers : CollectorReceive(i)
    \/ CollectorRecord
    \/ CollectorDone

SpecPool == InitPool /\ [][NextPool]_specVars

\* How often function n is in the list s.
Occurs(s, n) == Cardinality({ j \in 1..Len(s) : s[j] = n })

\* C28: when the classification starts, every function of the line table
\* is in the list of its package, Methods or Functions by its receiver,
\* exactly once and nowhere else; no result is with a worker or with the
\* result routine.
C28_AllRecordedBeforeClassification ==
    pc.main.at \in {"classify", "returned"} =>
        /\ \A n \in 1..Len(arg) : \A p \in {"main", "p"} :
              /\ Occurs(ret[p].Methods, n) =
                    (IF arg[n].pkg = p /\ arg[n].method THEN 1 ELSE 0)
              /\ Occurs(ret[p].Functions, n) =
                    (IF arg[n].pkg = p /\ ~arg[n].method THEN 1 ELSE 0)
        /\ \A i \in Workers : pc.w[i].at = "done"
        /\ pc.coll.at # "got"

\* The classification has started on a table of MaxFuncs functions with a
\* method and a function in one package, and the result routine has ended.
C28_Witness ==
    /\ pc.main.at = "classify"
    /\ pc.coll.at = "exit"
    /\ Len(arg) = MaxFuncs
    /\ \E p \in {"main", "p"} : ret[p].Methods # <<>> /\ ret[p].Functions # <<>>

----------------------------------------------------------------------------
(***************************************************************************)
(* Part 17.  findSourceLines (unnamed/part_010:184-219).  arg holds a      *)
(* function's entry and end (the PC after its last byte, where the next    *)
(* function starts) and tab, what PCToLine returns for each PC that the    *)
(* walk can reach.                                                         *)
(***************************************************************************)
\* Bound on the number of steps of the walk from a function's entry.
MaxSteps == 2

\* unnamed/part_010:197  i = i + 4
PCStep == 4

LinePCs == { PCStep * k : k \in 0..MaxSteps }

LineEntries == [file : {"a.go", "b.go"}, line : 1..3]

\* unnamed/part_010:197-216  the walk from PC i with the end line so far.
RECURSIVE walkLines(_, _, _, _)
walkLines(i, a, file, srcEnd) ==
    IF ~(i <= a.end) THEN srcEnd
    ELSE IF a.tab[i].file # file THEN walkLines(i + PCStep, a, file, srcEnd)
    ELSE IF a.tab[i].line < a.tab[a.entry].line THEN walkLines(i + PCStep, a, file, srcEnd)
    ELSE IF a.tab[i].line > srcEnd THEN walkLines(i + PCStep, a, file, a.tab[i].line)
    ELSE walkLines(i + PCStep, a, file, srcEnd)

\* unnamed/part_010:184-219  findSourceLines.
findSourceLines(a) ==
    [srcStart |-> a.tab[a.entry].line,
     srcEnd   |-> walkLines(a.entry, a, a.tab[a.entry].file, a.tab[a.entry].line)]

LinesArgs ==
    { a \in [entry : {0}, end : 1..(PCStep * MaxSteps), tab : [LinePCs -> LineEntries]] :
        a.end % 2 = 0 }

LinesPending == [srcStart |-> 0, srcEnd |-> 0]

InitLines ==
    /\ arg \in LinesArgs
    /\ ret = LinesPending
    /\ img = <<>>
    /\ gf = <<>>
    /\ first = <<>>
    /\ last = <<>>
    /\ calls = 0
    /\ overridden = FALSE
    /\ closeRets = <<>>
    /\ pc = <<>>

\* file.go:235, unnamed/part_010:252  the calls of findSourceLines.
CallFindSourceLines ==
    /\ ret = LinesPending
    /\ ret' = findSourceLines(arg)
    /\ UNCHANGED <<img, gf, first, last, calls, overridden, closeRets, pc, arg>>

NextLines == CallFindSourceLines

SpecLines == InitLines /\ [][NextLines]_specVars

\* C29: the reported lines come from PCs inside [entry, end) only: whatever
\* the line table says of the PC end, the result is the same.
C29_EndPCHasNoInfluence ==
    (ret # LinesPending /\ arg.end \in LinePCs) =>
        \A e \in LineEntries :
            findSourceLines([arg EXCEPT !.tab[arg.end] = e]) = ret

----------------------------------------------------------------------------
(***************************************************************************)
(* Part 18.  extractModuledata of unnamed/part_004 from its start: the     *)
(* record at the symbol runtime.firstmoduledata first, then the scan.      *)
(* arg.sym is the symbol's offset in the section, or -1 when the file has  *)
(* no such symbol.  pc is the scan state of Part 11 with magic, whether    *)
(* the variable magic has been given the bytes of the PCLNTAB address.     *)
(***************************************************************************)
SymArgs ==
    { a \in [sec : SeqsUpTo(Slots \cup {"w"}, MaxSecLen), sym : -1..(MaxSecLen - 1)] :
        a.sym < Len(a.sec) }

\* The scan has made its first round.
SymStarted == pc.hits # <<>> \/ pc.out # "pending"

\* unnamed/part_004:335-336  search: off = bytes.Index(secData, magic).  A
\* nil magic is found at offset 0 of any data.
searchOff(st) == IF st.magic THEN IndexOfMagic(st.data) ELSE 0

InitSym ==
    /\ arg \in SymArgs
    /\ pc = [data |-> arg.sec, base |-> 0, hits |-> <<>>, out |-> "pending", magic |-> FALSE]
    /\ ret = <<>>
    /\ img = <<>>
    /\ gf = <<>>
    /\ first = <<>>
    /\ last = <<>>
    /\ calls = 0
    /\ overridden = FALSE
    /\ closeRets = <<>>

\* unnamed/part_004:318-325  the symbol gives the offset: goto load, past
\* the assignment of magic.
SymLoad ==
    /\ ~SymStarted
    /\ arg.sym # -1
    /\ pc' = scanRound004(pc, arg.sym)
    /\ UNCHANGED <<img, gf, first, last, calls, overridden, closeRets, arg, ret>>

\* unnamed/part_004:327-336  without the symbol: initPclntab, magic is built
\* and the first search is made.
SymFirstSearch ==
    /\ ~SymStarted
    /\ arg.sym = -1
    /\ pc' = scanRound004([pc EXCEPT !.magic = TRUE],
                          searchOff([pc EXCEPT !.magic = TRUE]))
    /\ UNCHANGED <<img, gf, first, last, calls, overridden, closeRets, arg, ret>>

\* unnamed/part_004:379-381, 335-377  invalidMD: goto search, and the next
\* round.
SymSearch ==
    /\ SymStarted
    /\ pc.out = "pending"
    /\ pc' = scanRound004(pc, searchOff(pc))
    /\ UNCHANGED <<img, gf, first, last, calls, overridden, closeRets, arg, ret>>

NextSym == SymLoad \/ SymFirstSearch \/ SymSearch

SpecSym == InitSym /\ [][NextSym]_specVars

\* C30: a record accepted by the scan (not read at the symbol) starts where
\* the PCLNTAB address occurs, also when the scan took over from a record at
\* the symbol that failed the validation.
C30_AcceptedStartsAtAddress ==
    (pc.out = "ok" /\ (arg.sym = -1 \/ Len(pc.hits) > 1)) =>
        arg.sec[pc.hits[Len(pc.hits)] + 1] \in AddressSlots

====
